---- MODULE Spec2Model ----
(***************************************************************************)
(* CL7206C2 RFID toolkit: the wire codec (tools/cl7206c2_client.py) and    *)
(* the web bridge (web/server.py) that shares one reader client between    *)
(* HTTP handlers, WebSocket handlers and inventory streamer tasks.         *)
(*                                                                         *)
(* The bridge runs on one asyncio event loop.  A coroutine runs until it   *)
(* awaits; `running` names the task that is executing (it is blocked in a  *)
(* socket call or waits for reader_lock), NoTask when the loop is idle and *)
(* every task is parked at an await.  One action is the code between two   *)
(* points where time passes: an await or a blocking socket recv.           *)
(***************************************************************************)
EXTENDS Integers, Sequences, FiniteSets, TLC

(* ------------------------------------------------------------------ *)
(* Bit arithmetic on naturals (Python's &, ^, <<, >> on ints)          *)
(* ------------------------------------------------------------------ *)

RECURSIVE Pow2(_)
Pow2(n) == IF n = 0 THEN 1 ELSE 2 * Pow2(n - 1)

RECURSIVE BitXor(_, _)
BitXor(a, b) ==
    IF a = 0 THEN b
    ELSE IF b = 0 THEN a
    ELSE (((a % 2) + (b % 2)) % 2) + 2 * BitXor(a \div 2, b \div 2)

RECURSIVE BitAnd(_, _)
BitAnd(a, b) ==
    IF a = 0 \/ b = 0 THEN 0
    ELSE ((a % 2) * (b % 2)) + 2 * BitAnd(a \div 2, b \div 2)

BitOr(a, b) == a + b - BitAnd(a, b)

Shl(a, n) == a * Pow2(n)
Shr(a, n) == a \div Pow2(n)

(* ------------------------------------------------------------------ *)
(* CRC-16, packet builder and parser                                   *)
(* ------------------------------------------------------------------ *)

HEADER == 170

CrcPoly == 32773

\* Fault variant of CrcRound: the register is shifted LSB-first (reflected).
CrcRound_lsb_first(crc, poly) ==
    BitAnd(IF BitAnd(crc, 1) # 0 THEN BitXor(Shr(crc, 1), poly) ELSE Shr(crc, 1),
           65535)

\* One round of the inner loop of _generate_crc16_table.
CrcRound(crc, poly) ==
    BitAnd(IF BitAnd(crc, 32768) # 0 THEN BitXor(Shl(crc, 1), poly) ELSE Shl(crc, 1),
           65535)

RECURSIVE CrcRounds(_, _, _)
CrcRounds(crc, poly, n) ==
    IF n = 0 THEN crc ELSE CrcRounds(CrcRound(crc, poly), poly, n - 1)

_generate_crc16_table(poly) == [i \in 0..255 |-> CrcRounds(Shl(i, 8), poly, 8)]

_CRC16_TABLE == _generate_crc16_table(CrcPoly)

\* crc16_verified.py: generate_crc16_table, its own loop over range(256)
\* and range(8), and the table the script builds from it.
generate_crc16_table(poly) ==
    [i \in 0..255 |->
        LET r0 == Shl(i, 8)
            r1 == CrcRound(r0, poly)
            r2 == CrcRound(r1, poly)
            r3 == CrcRound(r2, poly)
            r4 == CrcRound(r3, poly)
            r5 == CrcRound(r4, poly)
            r6 == CrcRound(r5, poly)
            r7 == CrcRound(r6, poly)
        IN  CrcRound(r7, poly)]

CRC16_TABLE == generate_crc16_table(CrcPoly)

\* The body of the loop of crc16 for one byte.
CrcByte(crc, byte) ==
    BitXor(BitAnd(Shl(crc, 8), 65535),
           _CRC16_TABLE[BitAnd(BitXor(Shr(crc, 8), byte), 255)])

\* `for byte in data` over data[lo..hi], first byte first.  The range is
\* halved and the CRC of the first half is computed (the test left >= 0,
\* always true, asks for its value) before the second half begins, so that
\* a payload of a thousand bytes does not nest a thousand evaluations.
RECURSIVE CrcFold(_, _, _, _)
CrcFold(data, lo, hi, crc) ==
    IF lo > hi THEN crc
    ELSE IF lo = hi THEN CrcByte(crc, data[lo])
    ELSE LET mid  == (lo + hi) \div 2
             left == CrcFold(data, lo, mid, crc)
         IN  IF left >= 0 THEN CrcFold(data, mid + 1, hi, left) ELSE left

\* Fault variant of crc16: the register starts at 0xFFFF (CRC-16/CCITT-FALSE
\* style), whatever init is passed.
crc16_init_ffff(data, init) == CrcFold(data, 1, Len(data), 65535)

crc16(data, init) == CrcFold(data, 1, Len(data), init)

\* Fault variant of build_packet: the CRC is computed over the sync byte
\* as well.
build_packet_crc_over_header(cmd, sub, data) ==
    LET data_len    == Len(data)
        len_hi      == BitAnd(Shr(data_len, 8), 255)
        len_lo      == BitAnd(data_len, 255)
        crc_payload == <<cmd, sub, len_hi, len_lo>> \o data
        crc         == crc16(<<HEADER>> \o crc_payload, 0)
    IN  <<HEADER>> \o crc_payload \o <<Shr(crc, 8), BitAnd(crc, 255)>>

\* Fault variant of build_packet: the high byte of the length is left 0.
build_packet_short_len(cmd, sub, data) ==
    LET data_len    == Len(data)
        len_hi      == 0
        len_lo      == BitAnd(data_len, 255)
        crc_payload == <<cmd, sub, len_hi, len_lo>> \o data
        crc         == crc16(crc_payload, 0)
    IN  <<HEADER>> \o crc_payload \o <<Shr(crc, 8), BitAnd(crc, 255)>>

\* bytes [HEADER] + cmd, sub, len_hi, len_lo, data + crc_hi, crc_lo
build_packet(cmd, sub, data) ==
    LET data_len    == Len(data)
        len_hi      == BitAnd(Shr(data_len, 8), 255)
        len_lo      == BitAnd(data_len, 255)
        crc_payload == <<cmd, sub, len_hi, len_lo>> \o data
        crc         == crc16(crc_payload, 0)
    IN  <<HEADER>> \o crc_payload \o <<Shr(crc, 8), BitAnd(crc, 255)>>

\* Python's data[a:b] on a 0-based byte string (a <= b assumed by the callers).
Slice(data, a, b) ==
    LET hi == IF b > Len(data) THEN Len(data) ELSE b
    IN  IF a >= hi THEN <<>> ELSE SubSeq(data, a + 1, hi)

\* bytes.hex(): two digits per byte, high nibble first; a digit is
\* written as its value 0..15 (upper() changes no value).
hex(bytes) ==
    [i \in 1..(2 * Len(bytes)) |->
        IF i % 2 = 1 THEN bytes[(i + 1) \div 2] \div 16 ELSE bytes[i \div 2] % 16]

\* bytes.find: 0-based index of the first occurrence of byte b, -1 when absent.
Find(data, b) ==
    IF \E i \in 1..Len(data) : data[i] = b
    THEN (CHOOSE i \in 1..Len(data) :
              data[i] = b /\ \A j \in 1..(i - 1) : data[j] # b) - 1
    ELSE -1

NoFrame == <<>>

\* The part of parse_packet after the header has been located.  A CRC
\* mismatch only prints a note: the tuple is returned all the same.
ParseAligned(data) ==
    IF Len(data) < 7 THEN NoFrame
    ELSE LET cmd      == data[2]
             sub      == data[3]
             data_len == Shl(data[4], 8) + data[5]
             expected_total == 5 + data_len + 2
         IN  IF Len(data) < expected_total THEN NoFrame
             ELSE <<cmd, sub, Slice(data, 5, 5 + data_len)>>

\* parse_packet: (cmd, sub, payload), or NoFrame for Python's None.
parse_packet(data) ==
    IF Len(data) < 7 THEN NoFrame
    ELSE IF data[1] # HEADER
         THEN LET idx == Find(data, HEADER)
              IN  IF idx < 0 THEN NoFrame ELSE ParseAligned(Slice(data, idx, Len(data)))
         ELSE ParseAligned(data)

\* verify_packet: the CRC of a packet that starts at its header.
verify_packet(data) ==
    IF Len(data) < 7 \/ data[1] # HEADER THEN FALSE
    ELSE LET data_len == Shl(data[4], 8) + data[5] IN
         IF Len(data) < 5 + data_len + 2 THEN FALSE
         ELSE Shl(data[5 + data_len + 1], 8) + data[5 + data_len + 2]
                  = crc16(Slice(data, 1, 5 + data_len), 0)

(* ------------------------------------------------------------------ *)
(* RS-485 framing (firmware_analysis/final_functions.py)               *)
(* ------------------------------------------------------------------ *)

RS485_FLAG == 32        \* 0x20, bit 5 of the CMD byte

\* "Recalculate CRC16 over dst[1..end-2], write at end".
WithCrc(packet) ==
    LET n   == Len(packet)
        crc == crc16(SubSeq(packet, 2, n - 2), 0)
    IN  SubSeq(packet, 1, n - 2) \o <<Shr(crc, 8), BitAnd(crc, 255)>>

\* Add_Rs485_Addr: AA, CMD, SUB are copied, the flag is set in CMD, the
\* address goes to dst[3], the rest of src follows, the CRC is recomputed.
Add_Rs485_Addr(src, addr) ==
    WithCrc(<<src[1], BitOr(src[2], RS485_FLAG), src[3], addr>>
                \o SubSeq(src, 4, Len(src)))

\* Fault variant of Rs485_data_process: the address is not compared.
Rs485_data_process_any_addr(packet, local_addr) ==
    IF BitAnd(Shr(packet[2], 5), 1) = 0 THEN [rc |-> 0, packet |-> packet]
    ELSE IF Len(packet) < 8 THEN [rc |-> -4, packet |-> packet]
    ELSE [rc |-> 0,
          packet |-> WithCrc(<<packet[1], BitAnd(packet[2], 223), packet[3]>>
                                 \o SubSeq(packet, 5, Len(packet)))]

\* Rs485_data_process: a packet without the flag passes as it is; with the
\* flag, a packet shorter than the 8 bytes of the RS-485 layout is too short
\* (-4), one for another address is dropped (-3), else the address byte is
\* taken out, the flag cleared and the CRC recomputed.
Rs485_data_process(packet, local_addr) ==
    IF BitAnd(Shr(packet[2], 5), 1) = 0 THEN [rc |-> 0, packet |-> packet]
    ELSE IF Len(packet) < 8 THEN [rc |-> -4, packet |-> packet]
    ELSE IF packet[4] # local_addr THEN [rc |-> -3, packet |-> packet]
    ELSE [rc |-> 0,
          packet |-> WithCrc(<<packet[1], BitAnd(packet[2], 223), packet[3]>>
                                 \o SubSeq(packet, 5, Len(packet)))]

(* ------------------------------------------------------------------ *)
(* Bounds of the model                                                 *)
(* ------------------------------------------------------------------ *)

NHttp == 1          \* HTTP handler invocations that may be in flight
NWs == 1            \* WebSocket connections to /ws/inventory
NStreamers == 1     \* _run_inventory tasks that may exist at once
MaxClients == 2     \* CL7206C2Client objects alive at once
MaxInbox == 3       \* frames buffered on the reader socket
MaxPending == 1     \* requests the reader has accepted and not yet answered
MaxTags == 1        \* the reader stops sending tags once a streamer counted this many
NWsSession == 2         \* WebSocket connections in the two-browser scenario
NStreamersSession == 2  \* _run_inventory tasks in the two-browser scenario
MaxFrames == 3          \* frames the reader sends during one inventory run
MaxPayload == 2         \* length of the short payloads given to the codec
MaxRecords == 3         \* tag records the reader has stored
MaxLogged == 5          \* log entries appended during one run of LogSpec
MaxEdits == 2           \* setter calls on one ConfigPram object

(* ------------------------------------------------------------------ *)
(* Tasks, protocol constants                                           *)
(* ------------------------------------------------------------------ *)

NoTask == <<"none", 0>>
HttpTasks == {<<"http", i>> : i \in 1..NHttp}
WsTasks == {<<"ws", i>> : i \in 1..NWs}
Streamers == {<<"inv", i>> : i \in 1..NStreamers}
ClientIds == 1..MaxClients
SessionWs == {<<"ws", i>> : i \in 1..NWsSession}
SessionStreamers == {<<"inv", i>> : i \in 1..NStreamersSession}

CMD_CONFIG == 1         \* cmd byte of the configuration requests
CMD_RF == 2             \* cmd byte of start / stop inventory
CMD_TAG == 18           \* 0x12: tag notification
SUB_NETWORK == 5        \* get_network
SUB_MAC == 6            \* get_mac
SUB_REBOOT == 15        \* 0x0F
SUB_FACTORY == 20       \* 0x14
SUB_START == 16         \* 0x10
SUB_STOP == 255         \* 0xFF
DEFAULT_TIMEOUT == 30   \* CL7206C2Client(timeout=3), in tenths of a second
POLL_TIMEOUT == 5       \* settimeout(0.5) of the inventory loop

GetSubs == {SUB_NETWORK, SUB_MAC}
ConnectOutcomes == {"ok", "refused", "timeout", "unreachable"}

\* The start command of _run_inventory with its eight tuning bytes.
start_pkt == build_packet(CMD_RF, SUB_START, <<1, 0, 2, 0, 3, 0, 4, 4>>)
stop_pkt == build_packet(CMD_RF, SUB_STOP, <<>>)

VARIABLES
    reader,                 \* 0 for None, else the id of the client object
    sock,                   \* per client object: state and timeout of self.sock
    reader_lock,            \* the task holding reader_lock, NoTask when free
    inventory_active,
    inventory_ws_clients,
    running,                \* the task executing on the event loop
    hpc, hreq, hresp,       \* HTTP handlers: position, request, response
    wpc, conn, wsLog,       \* WebSocket handlers: position, client side, sent messages
    spc, sws, tag_count,    \* _run_inventory tasks: position, ws, tag_count
    sraw,                   \* ... and raw[offset:], the bytes the packet loop has left
    net,                    \* the reader device and the bytes in flight
    sockOps,                \* the socket calls made by the last step
    cstep, cin, cout,       \* the codec on its own: position, input, output
    log_ring                \* deque(maxlen=2000) of log entries; followed in LogSpec

vars == <<reader, sock, reader_lock, inventory_active, inventory_ws_clients, running,
          hpc, hreq, hresp, wpc, conn, wsLog, spc, sws, sraw, tag_count,
          net, sockOps, cstep, cin, cout, log_ring>>

codecVars == <<cstep, cin, cout>>
httpVars == <<hpc, hreq, hresp>>
wsVars == <<wpc, conn, wsLog>>
invVars == <<spc, sws, tag_count, sraw>>
bridgeVars ==
    <<reader, sock, reader_lock, inventory_active, inventory_ws_clients, running,
      httpVars, wsVars, invVars, net, sockOps, log_ring>>

NoReq == [ep |-> "none", sub |-> 0]
NoResp == [code |-> 0, status |-> "none", cmd |-> 0, sub |-> 0]
Resp(code, status) == [code |-> code, status |-> status, cmd |-> 0, sub |-> 0]

NoSock == [st |-> "closed", tmo |-> 0]

\* The module state of web/server.py after import, with H handler
\* invocations, W WebSocket connections and S streamer tasks yet to exist.
InitWith(H, W, S) ==
    /\ reader = 0
    /\ sock = [c \in ClientIds |-> NoSock]
    /\ reader_lock = NoTask
    /\ inventory_active = FALSE
    /\ inventory_ws_clients = <<>>
    /\ running = NoTask
    /\ hpc = [h \in H |-> "idle"]
    /\ hreq = [h \in H |-> NoReq]
    /\ hresp = [h \in H |-> NoResp]
    /\ wpc = [w \in W |-> "closed"]
    /\ conn = [w \in W |-> FALSE]
    /\ wsLog = [w \in W |-> <<>>]
    /\ spc = [s \in S |-> "off"]
    /\ sws = [s \in S |-> NoTask]
    /\ sraw = [s \in S |-> <<>>]
    /\ tag_count = [s \in S |-> 0]
    /\ net = [inbox |-> <<>>, peer |-> "up", pending |-> {}, reading_flag |-> FALSE]
    /\ sockOps = <<>>

Init ==
    /\ InitWith(HttpTasks, WsTasks, Streamers)
    /\ cstep = "off" /\ cin = <<>> /\ cout = <<>>
    /\ log_ring = <<>>

(* ------------------------------------------------------------------ *)
(* The socket and the reader device behind it                          *)
(* ------------------------------------------------------------------ *)

IsOpen(c) == c # 0 /\ sock[c].st \in {"tcp", "udp"}

\* One socket call as sockOps records it: who made it, who held
\* reader_lock at that moment, and how the call ended.
Op(t, name, holder, res) ==
    [task |-> t, op |-> name, held |-> holder, res |-> res, arg |-> <<>>]

\* A send, with the (cmd, sub) of the frame written.
SendOp(t, holder, res, pkt) ==
    [task |-> t, op |-> "send", held |-> holder, res |-> res, arg |-> <<pkt[2], pkt[3]>>]

\* sendall / sendto raise on a closed socket and on a connection the peer
\* has reset; after the peer's FIN the bytes are accepted and lost.
SendRaises(c) == ~IsOpen(c) \/ net.peer = "rst"

\* What the reader does with a frame it receives: a reboot ends the
\* connection, start and stop switch the inventory, a configuration
\* request is kept to be answered while there is room for it.
DevReceive(n, pkt) ==
    LET f   == parse_packet(pkt)
        key == <<f[1], f[2]>>
        acc == IF Cardinality(n.pending) < MaxPending
               THEN n.pending \cup {key} ELSE n.pending
    IN  IF f = NoFrame THEN n
        ELSE IF key = <<CMD_CONFIG, SUB_REBOOT>>
             THEN [n EXCEPT !.pending = {}, !.reading_flag = FALSE, !.peer = "fin"]
        ELSE IF key = <<CMD_RF, SUB_START>> THEN [n EXCEPT !.reading_flag = TRUE]
        ELSE IF key = <<CMD_RF, SUB_STOP>> THEN [n EXCEPT !.reading_flag = FALSE]
        ELSE IF key = <<CMD_CONFIG, SUB_FACTORY>>
             THEN [n EXCEPT !.pending = acc, !.reading_flag = FALSE]
        ELSE [n EXCEPT !.pending = acc]

\* The network after the reader client sent pkt without an exception.  A
\* reader that did not accept the TCP connection does not take datagrams
\* either: what the datagram fallback sends is lost.
NetSend(n, pkt) ==
    IF n.peer = "up" /\ sock[reader].st = "tcp" THEN DevReceive(n, pkt) ELSE n

\* The network after the bridge closed the socket of its session: what
\* was in flight is gone, the next session starts on a fresh connection.
NetClose(n) == [n EXCEPT !.inbox = <<>>, !.pending = {}, !.peer = "up"]

\* The outcome of one blocking recv on the socket of client c.
recv(c) ==
    IF ~IsOpen(c) THEN [kind |-> "error", data |-> <<>>]
    ELSE IF net.inbox # <<>> THEN [kind |-> "data", data |-> net.inbox]
    ELSE IF net.peer = "fin" THEN [kind |-> "eof", data |-> <<>>]
    ELSE IF net.peer = "rst" THEN [kind |-> "error", data |-> <<>>]
    ELSE [kind |-> "timeout", data |-> <<>>]

(* ------------------------------------------------------------------ *)
(* HTTP handlers (web/server.py)                                       *)
(* ------------------------------------------------------------------ *)

\* A handler starts when the event loop is idle.
HttpEnter(h) == hpc[h] = "idle" /\ running = NoTask

\* `with reader_lock:` found the lock taken: threading.Lock blocks the
\* thread, which is the event loop's.
HttpWaitLock(h, req) ==
    /\ hpc' = [hpc EXCEPT ![h] = "blocked"]
    /\ hreq' = [hreq EXCEPT ![h] = req]
    /\ running' = h
    /\ sockOps' = <<>>
    /\ UNCHANGED <<reader, sock, reader_lock, inventory_ws_clients, hresp, wsVars,
                   invVars, net>>

\* The handler's body is over: the response is set, the function returns
\* at HttpReturn without another task running in between.
HttpDone(h, req, resp) ==
    /\ hpc' = [hpc EXCEPT ![h] = "done"]
    /\ hreq' = [hreq EXCEPT ![h] = req]
    /\ hresp' = [hresp EXCEPT ![h] = resp]
    /\ running' = h

\* CL7206C2Client.close followed by dropping the client.
CloseSock(sk, c) == [sk EXCEPT ![c] = NoSock]

\* The id given to the client object that connect() constructs.
NewClient(old) ==
    CHOOSE c \in ClientIds :
        /\ c # old /\ sock[c].st = "closed"
        /\ \A d \in ClientIds : (d # old /\ sock[d].st = "closed") => c <= d

\* CL7206C2Client.connect: the state of self.sock afterwards.  A refused or
\* timed-out TCP connect falls back to a datagram socket and returns; any
\* other error leaves the exception to the caller, who drops the client
\* and with it the socket that never connected.
ClientConnect(outcome) ==
    CASE outcome = "ok" -> [st |-> "tcp", tmo |-> DEFAULT_TIMEOUT]
      [] outcome \in {"refused", "timeout"} -> [st |-> "udp", tmo |-> DEFAULT_TIMEOUT]
      [] OTHER -> NoSock

ConnectRaises(outcome) == outcome \notin {"ok", "refused", "timeout"}

\* Fault variant of connect: the previous client is replaced without
\* being closed.
connect_keeping_old(h, outcome) ==
    LET req == [ep |-> "connect", sub |-> 0]
        new == NewClient(reader)
    IN
    /\ HttpEnter(h)
    /\ \E c \in ClientIds : c # reader /\ sock[c].st = "closed"
    /\ reader_lock = NoTask
    /\ sock' = [sock EXCEPT ![new] = ClientConnect(outcome)]
    /\ reader' = IF ConnectRaises(outcome) THEN 0 ELSE new
    /\ sockOps' = <<Op(h, "connect", h, outcome)>>
    /\ HttpDone(h, req, IF ConnectRaises(outcome)
                        THEN Resp(502, "connection_failed")
                        ELSE Resp(200, "connected"))
    /\ UNCHANGED <<reader_lock, inventory_active, inventory_ws_clients, wsVars,
                   invVars, net>>

\* POST /api/connect
connect(h, outcome) ==
    LET req == [ep |-> "connect", sub |-> 0] IN
    /\ HttpEnter(h)
    /\ \E c \in ClientIds : c # reader /\ sock[c].st = "closed"
    /\ IF reader_lock # NoTask
       THEN HttpWaitLock(h, req) /\ UNCHANGED inventory_active
       ELSE LET old  == reader
                new  == NewClient(old)
                sk1  == IF old # 0 THEN CloseSock(sock, old) ELSE sock
                ops1 == IF old # 0 THEN <<Op(h, "close", h, "ok")>> ELSE <<>>
            IN  /\ sock' = [sk1 EXCEPT ![new] = ClientConnect(outcome)]
                /\ reader' = IF ConnectRaises(outcome) THEN 0 ELSE new
                /\ net' = IF old # 0 THEN NetClose(net) ELSE net
                /\ sockOps' = ops1 \o <<Op(h, "connect", h, outcome)>>
                /\ reader_lock' = NoTask
                /\ HttpDone(h, req, IF ConnectRaises(outcome)
                                    THEN Resp(502, "connection_failed")
                                    ELSE Resp(200, "connected"))
                /\ UNCHANGED <<inventory_active, inventory_ws_clients, wsVars, invVars>>

\* POST /api/disconnect
disconnect(h) ==
    LET req == [ep |-> "disconnect", sub |-> 0] IN
    /\ HttpEnter(h)
    /\ inventory_active' = FALSE
    /\ IF reader_lock # NoTask
       THEN HttpWaitLock(h, req)
       ELSE /\ sock' = IF reader # 0 THEN CloseSock(sock, reader) ELSE sock
            /\ net' = IF reader # 0 THEN NetClose(net) ELSE net
            /\ sockOps' = IF reader # 0 THEN <<Op(h, "close", h, "ok")>> ELSE <<>>
            /\ reader' = 0
            /\ reader_lock' = NoTask
            /\ HttpDone(h, req, Resp(200, "disconnected"))
            /\ UNCHANGED <<inventory_ws_clients, wsVars, invVars>>

\* Fault variant of NotConnected: without require_reader the handler goes
\* on with r = None, and r.get_...() raises AttributeError inside the lock.
NotConnected_unchecked(h, req) ==
    /\ HttpDone(h, req, Resp(500, "exception"))
    /\ sockOps' = <<>>
    /\ UNCHANGED <<reader, sock, reader_lock, inventory_active, inventory_ws_clients,
                   wsVars, invVars, net>>

\* require_reader found reader None: HTTP 400 before the lock is touched.
NotConnected(h, req) ==
    /\ HttpDone(h, req, Resp(400, "not_connected"))
    /\ sockOps' = <<>>
    /\ UNCHANGED <<reader, sock, reader_lock, inventory_active, inventory_ws_clients,
                   wsVars, invVars, net>>

\* send_command after its recv: the parsed response, None without bytes.
send_command(out) == IF out.kind = "data" THEN parse_packet(out.data) ELSE NoFrame

\* parse_result: 504 for None, else the (cmd, sub, payload) tuple as JSON.
parse_result(result) ==
    IF result = NoFrame THEN Resp(504, "no_response")
    ELSE [code |-> 200, status |-> "ok", cmd |-> result[1], sub |-> result[2]]

\* GET /api/network, /api/mac, ...: require_reader, then under the lock the
\* request is written; the handler blocks in recv.
get_request(h, sub) ==
    LET req == [ep |-> "get", sub |-> sub]
        pkt == build_packet(CMD_CONFIG, sub, <<>>)
    IN
    /\ HttpEnter(h)
    /\ IF reader = 0 THEN NotConnected(h, req)
       ELSE IF reader_lock # NoTask
       THEN HttpWaitLock(h, req) /\ UNCHANGED inventory_active
       ELSE IF SendRaises(reader)
       THEN /\ sockOps' = <<SendOp(h, h, "raised", pkt)>>
            /\ HttpDone(h, req, Resp(500, "exception"))
            /\ UNCHANGED <<reader, sock, reader_lock, inventory_active,
                           inventory_ws_clients, wsVars, invVars, net>>
       ELSE /\ net' = NetSend(net, pkt)
            /\ sockOps' = <<SendOp(h, h, "ok", pkt)>>
            /\ reader_lock' = h
            /\ running' = h
            /\ hpc' = [hpc EXCEPT ![h] = "recv"]
            /\ hreq' = [hreq EXCEPT ![h] = req]
            /\ UNCHANGED <<reader, sock, inventory_active, inventory_ws_clients, hresp,
                           wsVars, invVars>>

\* ... the recv returns (bytes, timeout, end of stream) or raises, the lock
\* is released and parse_result builds the response.
get_response(h) ==
    LET out == recv(reader) IN
    /\ hpc[h] = "recv" /\ hreq[h].ep = "get" /\ running = h
    /\ net' = IF out.kind = "data" THEN [net EXCEPT !.inbox = <<>>] ELSE net
    /\ sockOps' = <<Op(h, "recv", reader_lock, out.kind)>>
    /\ reader_lock' = NoTask
    /\ HttpDone(h, hreq[h], IF out.kind = "error" THEN Resp(500, "exception")
                            ELSE parse_result(send_command(out)))
    /\ UNCHANGED <<reader, sock, inventory_active, inventory_ws_clients, wsVars, invVars>>

\* Fault variant of reboot: without the try around r.reboot() a failed
\* send leaves the handler with the session as it was.
reboot_unguarded(h) ==
    LET req == [ep |-> "reboot", sub |-> SUB_REBOOT]
        pkt == build_packet(CMD_CONFIG, SUB_REBOOT, <<>>)
    IN
    /\ HttpEnter(h)
    /\ reader # 0 /\ reader_lock = NoTask
    /\ IF SendRaises(reader)
       THEN /\ sockOps' = <<SendOp(h, h, "raised", pkt)>>
            /\ HttpDone(h, req, Resp(500, "exception"))
            /\ UNCHANGED <<reader, sock, net>>
       ELSE /\ net' = NetClose(NetSend(net, pkt))
            /\ sock' = CloseSock(sock, reader)
            /\ sockOps' = <<SendOp(h, h, "ok", pkt), Op(h, "close", h, "ok")>>
            /\ reader' = 0
            /\ HttpDone(h, req, Resp(200, "rebooting"))
    /\ UNCHANGED <<reader_lock, inventory_active, inventory_ws_clients, wsVars, invVars>>

\* POST /api/reboot: CL7206C2Client.reboot only sends; whatever happens the
\* client is closed and dropped.
reboot(h) ==
    LET req == [ep |-> "reboot", sub |-> SUB_REBOOT]
        pkt == build_packet(CMD_CONFIG, SUB_REBOOT, <<>>)
    IN
    /\ HttpEnter(h)
    /\ IF reader = 0 THEN NotConnected(h, req)
       ELSE IF reader_lock # NoTask
       THEN HttpWaitLock(h, req) /\ UNCHANGED inventory_active
       ELSE /\ net' = NetClose(IF SendRaises(reader) THEN net ELSE NetSend(net, pkt))
            /\ sock' = CloseSock(sock, reader)
            /\ sockOps' = <<SendOp(h, h, IF SendRaises(reader) THEN "raised" ELSE "ok", pkt),
                            Op(h, "close", h, "ok")>>
            /\ reader' = 0
            /\ reader_lock' = NoTask
            /\ HttpDone(h, req, Resp(200, "rebooting"))
            /\ UNCHANGED <<inventory_active, inventory_ws_clients, wsVars, invVars>>

\* POST /api/factoryreset: send_command(0x01, 0x14) inside try / except.
factory_reset(h) ==
    LET req == [ep |-> "factoryreset", sub |-> SUB_FACTORY]
        pkt == build_packet(CMD_CONFIG, SUB_FACTORY, <<>>)
    IN
    /\ HttpEnter(h)
    /\ IF reader = 0 THEN NotConnected(h, req)
       ELSE IF reader_lock # NoTask
       THEN HttpWaitLock(h, req) /\ UNCHANGED inventory_active
       ELSE IF SendRaises(reader)
       THEN /\ net' = NetClose(net)
            /\ sock' = CloseSock(sock, reader)
            /\ sockOps' = <<SendOp(h, h, "raised", pkt), Op(h, "close", h, "ok")>>
            /\ reader' = 0
            /\ reader_lock' = NoTask
            /\ HttpDone(h, req, Resp(200, "factory_reset"))
            /\ UNCHANGED <<inventory_active, inventory_ws_clients, wsVars, invVars>>
       ELSE /\ net' = NetSend(net, pkt)
            /\ sockOps' = <<SendOp(h, h, "ok", pkt)>>
            /\ reader_lock' = h
            /\ running' = h
            /\ hpc' = [hpc EXCEPT ![h] = "recv"]
            /\ hreq' = [hreq EXCEPT ![h] = req]
            /\ UNCHANGED <<reader, sock, inventory_active, inventory_ws_clients, hresp,
                           wsVars, invVars>>

\* ... whatever the recv gives, the client is closed and dropped.
factory_reset_close(h) ==
    LET out == recv(reader) IN
    /\ hpc[h] = "recv" /\ hreq[h].ep = "factoryreset" /\ running = h
    /\ net' = NetClose(net)
    /\ sock' = CloseSock(sock, reader)
    /\ sockOps' = <<Op(h, "recv", reader_lock, out.kind), Op(h, "close", reader_lock, "ok")>>
    /\ reader' = 0
    /\ reader_lock' = NoTask
    /\ HttpDone(h, hreq[h], Resp(200, "factory_reset"))
    /\ UNCHANGED <<inventory_active, inventory_ws_clients, wsVars, invVars>>

\* The handler function returns; the response goes to the HTTP client.
HttpReturn(h) ==
    /\ hpc[h] = "done" /\ running = h
    /\ hpc' = [hpc EXCEPT ![h] = "idle"]
    /\ hreq' = [hreq EXCEPT ![h] = NoReq]
    /\ hresp' = [hresp EXCEPT ![h] = NoResp]
    /\ running' = NoTask
    /\ sockOps' = <<>>
    /\ UNCHANGED <<reader, sock, reader_lock, inventory_active, inventory_ws_clients,
                   wsVars, invVars, net>>

(* ------------------------------------------------------------------ *)
(* WebSocket /ws/inventory (inventory_ws)                              *)
(* ------------------------------------------------------------------ *)

\* wsLog[w] keeps the last status message sent on w and the tag events
\* sent after it.
Status(name) == [type |-> name, count |-> 0]

\* The client connects: ws.accept(), then the append to the client list.
\* The slot w stands for a new connection only when no task is left that
\* serves the connection it stood for before.
inventory_ws_accept(w) ==
    /\ wpc[w] = "closed" /\ running = NoTask
    /\ \A s \in DOMAIN sws : sws[s] # w
    /\ wpc' = [wpc EXCEPT ![w] = "receive"]
    /\ conn' = [conn EXCEPT ![w] = TRUE]
    /\ wsLog' = [wsLog EXCEPT ![w] = <<>>]
    /\ inventory_ws_clients' = Append(inventory_ws_clients, w)
    /\ sockOps' = <<>>
    /\ UNCHANGED <<reader, sock, reader_lock, inventory_active, running, httpVars,
                   invVars, net>>

\* {"action": "start"}: without a reader an error is sent; else the flag is
\* set and inventory_started is sent, the handler suspended in the send.
inventory_ws_start(w) ==
    /\ wpc[w] = "receive" /\ conn[w] /\ running = NoTask
    /\ Cardinality({s \in DOMAIN spc : spc[s] # "off"})
         + Cardinality({v \in DOMAIN wpc : wpc[v] = "starting"}) < Cardinality(DOMAIN spc)
    /\ IF reader = 0
       THEN /\ wsLog' = [wsLog EXCEPT ![w] = <<Status("error_not_connected")>>]
            /\ UNCHANGED <<inventory_active, wpc>>
       ELSE /\ inventory_active' = TRUE
            /\ wsLog' = [wsLog EXCEPT ![w] = <<Status("inventory_started")>>]
            /\ wpc' = [wpc EXCEPT ![w] = "starting"]
    /\ sockOps' = <<>>
    /\ UNCHANGED <<reader, sock, reader_lock, inventory_ws_clients, running, httpVars,
                   conn, invVars, net>>

\* ... resumed after the send: ensure_future(_run_inventory(ws, loop)).  A
\* send to a client that is gone raises instead, and the handler leaves
\* through its finally block.
inventory_ws_spawn(w) ==
    /\ wpc[w] = "starting" /\ running = NoTask
    /\ IF conn[w]
       THEN /\ \E s \in DOMAIN spc :
                  /\ spc[s] = "off"
                  /\ \A t \in DOMAIN spc : spc[t] = "off" => s[2] <= t[2]
                  /\ spc' = [spc EXCEPT ![s] = "init"]
                  /\ sws' = [sws EXCEPT ![s] = w]
            /\ wpc' = [wpc EXCEPT ![w] = "receive"]
            /\ UNCHANGED <<inventory_active, inventory_ws_clients, wsLog>>
       ELSE /\ inventory_active' = FALSE
            /\ inventory_ws_clients' = SelectSeq(inventory_ws_clients, LAMBDA x : x # w)
            /\ wpc' = [wpc EXCEPT ![w] = "closed"]
            /\ wsLog' = [wsLog EXCEPT ![w] = <<>>]
            /\ UNCHANGED <<spc, sws>>
    /\ sockOps' = <<>>
    /\ UNCHANGED <<reader, sock, reader_lock, running, httpVars, conn, sraw,
                   tag_count, net>>

\* Fault variant of the stop action: it runs beside the event loop and
\* writes the stop frame without taking reader_lock.
inventory_ws_stop_unlocked(w) ==
    /\ wpc[w] = "receive" /\ conn[w]
    /\ \A h \in DOMAIN hpc : hpc[h] # "done"
    /\ inventory_active' = FALSE
    /\ net' = IF reader # 0 /\ ~SendRaises(reader) THEN NetSend(net, stop_pkt) ELSE net
    /\ sockOps' = IF reader # 0
                  THEN <<SendOp(w, reader_lock, IF SendRaises(reader) THEN "raised" ELSE "ok",
                                stop_pkt)>>
                  ELSE <<>>
    /\ wsLog' = [wsLog EXCEPT ![w] = <<Status("inventory_stopped")>>]
    /\ UNCHANGED <<reader, sock, reader_lock, inventory_ws_clients, running,
                   httpVars, wpc, conn, invVars>>

\* {"action": "stop"}: the flag is cleared, the stop frame is written under
\* the lock (a failed send is swallowed), inventory_stopped is sent.
inventory_ws_stop(w) ==
    /\ wpc[w] = "receive" /\ conn[w] /\ running = NoTask
    /\ inventory_active' = FALSE
    /\ IF reader_lock # NoTask
       THEN /\ wpc' = [wpc EXCEPT ![w] = "blocked"]
            /\ running' = w
            /\ sockOps' = <<>>
            /\ UNCHANGED <<reader, sock, reader_lock, inventory_ws_clients, httpVars,
                           conn, wsLog, invVars, net>>
       ELSE /\ net' = IF reader # 0 /\ ~SendRaises(reader)
                      THEN NetSend(net, stop_pkt) ELSE net
            /\ sockOps' = IF reader # 0
                          THEN <<SendOp(w, w, IF SendRaises(reader) THEN "raised" ELSE "ok",
                                        stop_pkt)>>
                          ELSE <<>>
            /\ wsLog' = [wsLog EXCEPT ![w] = <<Status("inventory_stopped")>>]
            /\ UNCHANGED <<reader, sock, reader_lock, inventory_ws_clients, running,
                           httpVars, wpc, conn, invVars>>

\* receive_text raises WebSocketDisconnect; the finally block.
inventory_ws_finally(w) ==
    /\ wpc[w] = "receive" /\ ~conn[w] /\ running = NoTask
    /\ inventory_active' = FALSE
    /\ inventory_ws_clients' = SelectSeq(inventory_ws_clients, LAMBDA x : x # w)
    /\ wpc' = [wpc EXCEPT ![w] = "closed"]
    /\ wsLog' = [wsLog EXCEPT ![w] = <<>>]
    /\ sockOps' = <<>>
    /\ UNCHANGED <<reader, sock, reader_lock, running, httpVars, conn, invVars, net>>

(* ------------------------------------------------------------------ *)
(* The inventory streamer (_run_inventory)                             *)
(* ------------------------------------------------------------------ *)

\* Fault variant of the packet loop: the two CRC bytes are left out of a
\* packet's total length.
RECURSIVE ScanNext_without_crc(_, _)
ScanNext_without_crc(raw, offset) ==
    IF offset >= Len(raw) THEN [tag |-> FALSE, packet |-> <<>>, offset |-> offset]
    ELSE IF raw[offset + 1] # HEADER THEN ScanNext_without_crc(raw, offset + 1)
    ELSE LET remaining == Slice(raw, offset, Len(raw)) IN
         IF Len(remaining) < 7 THEN [tag |-> FALSE, packet |-> <<>>, offset |-> offset]
         ELSE LET pkt_len == Shl(remaining[4], 8) + remaining[5]
                  total   == pkt_len + 5
              IN  IF Len(remaining) < total
                  THEN [tag |-> FALSE, packet |-> <<>>, offset |-> offset]
                  ELSE IF remaining[2] = CMD_TAG
                  THEN [tag |-> TRUE, packet |-> Slice(remaining, 0, total),
                        offset |-> offset + total]
                  ELSE ScanNext_without_crc(raw, offset + total)

\* The packet loop over raw from offset, up to the next CMD=0x12 packet.
RECURSIVE ScanNext(_, _)
ScanNext(raw, offset) ==
    IF offset >= Len(raw) THEN [tag |-> FALSE, packet |-> <<>>, offset |-> offset]
    ELSE IF raw[offset + 1] # HEADER THEN ScanNext(raw, offset + 1)
    ELSE LET remaining == Slice(raw, offset, Len(raw)) IN
         IF Len(remaining) < 7 THEN [tag |-> FALSE, packet |-> <<>>, offset |-> offset]
         ELSE LET pkt_len == Shl(remaining[4], 8) + remaining[5]
                  total   == pkt_len + 7
              IN  IF Len(remaining) < total
                  THEN [tag |-> FALSE, packet |-> <<>>, offset |-> offset]
                  ELSE IF remaining[2] = CMD_TAG
                  THEN [tag |-> TRUE, packet |-> Slice(remaining, 0, total),
                        offset |-> offset + total]
                  ELSE ScanNext(raw, offset + total)

\* The tag event sent to the subscriber: its type, count and raw_hex
\* (the packet's bytes stand for their hex string).
_parse_tag_notification(packet, count) ==
    [type |-> "tag", count |-> count, raw_hex |-> packet]

StreamerWaitLock(s) ==
    /\ spc' = [spc EXCEPT ![s] = "blocked"]
    /\ running' = s
    /\ UNCHANGED <<reader, reader_lock, inventory_ws_clients, httpVars, wsVars,
                   sws, sraw, tag_count>>

\* Fault variant of the finally block: inventory_active is left as it is.
StreamerExit_keeping_flag(s, sk, ops) ==
    /\ sock' = IF reader # 0 THEN [sk EXCEPT ![reader].tmo = DEFAULT_TIMEOUT] ELSE sk
    /\ sockOps' = IF reader # 0 THEN ops \o <<Op(s, "settimeout", s, "ok")>> ELSE ops
    /\ spc' = [spc EXCEPT ![s] = "off"]
    /\ sws' = [sws EXCEPT ![s] = NoTask]
    /\ sraw' = [sraw EXCEPT ![s] = <<>>]
    /\ tag_count' = [tag_count EXCEPT ![s] = 0]
    /\ UNCHANGED <<reader, reader_lock, running, inventory_active, inventory_ws_clients,
                   httpVars>>

\* Fault variant of the finally block: settimeout(3) outside reader_lock.
StreamerExit_unlocked(s, sk, ops) ==
    /\ inventory_active' = FALSE
    /\ sock' = IF reader # 0 THEN [sk EXCEPT ![reader].tmo = DEFAULT_TIMEOUT] ELSE sk
    /\ sockOps' = IF reader # 0
                  THEN ops \o <<Op(s, "settimeout", reader_lock, "ok")>> ELSE ops
    /\ spc' = [spc EXCEPT ![s] = "off"]
    /\ sws' = [sws EXCEPT ![s] = NoTask]
    /\ sraw' = [sraw EXCEPT ![s] = <<>>]
    /\ tag_count' = [tag_count EXCEPT ![s] = 0]
    /\ UNCHANGED <<reader, reader_lock, running, inventory_ws_clients, httpVars>>

\* The finally block: the flag is cleared and, under the lock, the timeout
\* of the current reader's socket is set back to 3 s.  The task is over.
StreamerExit(s, sk, ops) ==
    /\ inventory_active' = FALSE
    /\ sock' = IF reader # 0 THEN [sk EXCEPT ![reader].tmo = DEFAULT_TIMEOUT] ELSE sk
    /\ sockOps' = IF reader # 0 THEN ops \o <<Op(s, "settimeout", s, "ok")>> ELSE ops
    /\ spc' = [spc EXCEPT ![s] = "off"]
    /\ sws' = [sws EXCEPT ![s] = NoTask]
    /\ sraw' = [sraw EXCEPT ![s] = <<>>]
    /\ tag_count' = [tag_count EXCEPT ![s] = 0]
    /\ UNCHANGED <<reader, reader_lock, running, inventory_ws_clients, httpVars>>

\* `while inventory_active and reader is not None`: into the blocking recv
\* under the lock, or out through the finally block.
StreamerLoopTop(s, sk, ops, cnt) ==
    IF inventory_active /\ reader # 0
    THEN /\ spc' = [spc EXCEPT ![s] = "recv"]
         /\ reader_lock' = s
         /\ running' = s
         /\ sock' = sk
         /\ sockOps' = ops
         /\ tag_count' = [tag_count EXCEPT ![s] = cnt]
         /\ UNCHANGED <<reader, inventory_active, inventory_ws_clients, httpVars,
                        sws, sraw>>
    ELSE StreamerExit(s, sk, ops)

\* The task's first run: the start frame and settimeout(0.5) under the lock.
run_inventory_start(s) ==
    /\ spc[s] = "init" /\ running = NoTask
    /\ IF reader_lock # NoTask
       THEN StreamerWaitLock(s) /\ sockOps' = <<>>
            /\ UNCHANGED <<sock, inventory_active, net>>
       ELSE IF reader = 0
       THEN StreamerExit(s, sock, <<>>) /\ UNCHANGED <<wsVars, net>>
       ELSE IF SendRaises(reader)
       THEN IF conn[sws[s]]
            THEN /\ wsLog' = [wsLog EXCEPT ![sws[s]] = <<Status("error")>>]
                 /\ spc' = [spc EXCEPT ![s] = "failed"]
                 /\ sockOps' = <<SendOp(s, s, "raised", start_pkt)>>
                 /\ UNCHANGED <<reader, sock, reader_lock, inventory_active,
                                inventory_ws_clients, running, httpVars, wpc, conn,
                                sws, sraw, tag_count, net>>
            ELSE StreamerExit(s, sock, <<SendOp(s, s, "raised", start_pkt)>>)
                 /\ UNCHANGED <<wsVars, net>>
       ELSE /\ net' = NetSend(net, start_pkt)
            /\ StreamerLoopTop(s, [sock EXCEPT ![reader].tmo = POLL_TIMEOUT],
                               <<SendOp(s, s, "ok", start_pkt), Op(s, "settimeout", s, "ok")>>, 0)
            /\ UNCHANGED wsVars

\* ... resumed after the error event was sent: the finally block.
run_inventory_failed(s) ==
    /\ spc[s] = "failed" /\ running = NoTask
    /\ IF reader_lock # NoTask
       THEN StreamerWaitLock(s) /\ sockOps' = <<>> /\ inventory_active' = FALSE
            /\ UNCHANGED <<sock, net>>
       ELSE StreamerExit(s, sock, <<>>) /\ UNCHANGED <<wsVars, net>>

\* The inner packet loop over what is left of raw: the next tag packet is
\* sent to the subscriber (the task is suspended in the send), a failed
\* send clears the flag and leaves the loop; at the end of raw the task
\* sleeps 10 ms.
StreamerDeliver(s, raw) ==
    LET nx == ScanNext(raw, 0) IN
    IF nx.tag
    THEN /\ tag_count' = [tag_count EXCEPT ![s] = @ + 1]
         /\ IF conn[sws[s]]
            THEN /\ wsLog' = [wsLog EXCEPT ![sws[s]] =
                        Append(@, _parse_tag_notification(nx.packet, tag_count[s] + 1))]
                 /\ spc' = [spc EXCEPT ![s] = "sent"]
                 /\ sraw' = [sraw EXCEPT ![s] = Slice(raw, nx.offset, Len(raw))]
                 /\ UNCHANGED inventory_active
            ELSE /\ inventory_active' = FALSE
                 /\ spc' = [spc EXCEPT ![s] = "loop"]
                 /\ sraw' = [sraw EXCEPT ![s] = <<>>]
                              /\ UNCHANGED wsLog
    ELSE /\ spc' = [spc EXCEPT ![s] = "loop"]
         /\ sraw' = [sraw EXCEPT ![s] = <<>>]
              /\ UNCHANGED <<tag_count, wsLog, inventory_active>>

\* Fault variant of the recv step: the task goes to sleep inside the
\* `with reader_lock:` block.
run_inventory_recv_holding(s) ==
    LET out == recv(reader) IN
    /\ spc[s] = "recv" /\ running = s
    /\ net' = IF out.kind = "data" THEN [net EXCEPT !.inbox = <<>>] ELSE net
    /\ sockOps' = <<Op(s, "recv", reader_lock, out.kind)>>
    /\ running' = NoTask
    /\ StreamerDeliver(s, out.data)
    /\ UNCHANGED <<reader, sock, reader_lock, inventory_ws_clients, httpVars, wpc, conn, sws>>

\* The blocking reader.sock.recv(4096) ends: an exception counts as no
\* bytes.  The lock is released; without bytes the task sleeps 50 ms.
run_inventory_recv(s) ==
    LET out == recv(reader) IN
    /\ spc[s] = "recv" /\ running = s
    /\ net' = IF out.kind = "data" THEN [net EXCEPT !.inbox = <<>>] ELSE net
    /\ sockOps' = <<Op(s, "recv", reader_lock, out.kind)>>
    /\ reader_lock' = NoTask
    /\ running' = NoTask
    /\ StreamerDeliver(s, out.data)
    /\ UNCHANGED <<reader, sock, inventory_ws_clients, httpVars, wpc, conn, sws>>

\* Resumed after ws.send_json(tag_info): the rest of the same chunk.
run_inventory_sent(s) ==
    /\ spc[s] = "sent" /\ running = NoTask
    /\ StreamerDeliver(s, sraw[s])
    /\ sockOps' = <<>>
    /\ UNCHANGED <<reader, sock, reader_lock, running, inventory_ws_clients, httpVars,
                   wpc, conn, sws, net>>

\* Resumed after a sleep: the loop condition.
run_inventory_loop(s) ==
    /\ spc[s] = "loop" /\ running = NoTask
    /\ IF inventory_active /\ reader # 0 /\ reader_lock # NoTask
       THEN StreamerWaitLock(s) /\ sockOps' = <<>>
            /\ UNCHANGED <<sock, inventory_active, net>>
       ELSE IF ~(inventory_active /\ reader # 0) /\ reader_lock # NoTask
       THEN StreamerWaitLock(s) /\ sockOps' = <<>> /\ inventory_active' = FALSE
            /\ UNCHANGED <<sock, net>>
       ELSE StreamerLoopTop(s, sock, <<>>, tag_count[s]) /\ UNCHANGED <<wsVars, net>>

(* ------------------------------------------------------------------ *)
(* The environment: the reader device, the peers, the runtime          *)
(* ------------------------------------------------------------------ *)

InboxRoom == Len(net.inbox) + 7 <= 7 * MaxInbox

\* No time passes between a handler's last statement and its return.
NoReturnPending == \A h \in DOMAIN hpc : hpc[h] # "done"

\* The reader answers a request it holds with a frame of the same pair.
DeviceReply ==
    /\ NoReturnPending
    /\ reader # 0 /\ sock[reader].st = "tcp" /\ net.peer = "up" /\ InboxRoom
    /\ \E q \in net.pending :
          net' = [net EXCEPT !.pending = @ \ {q},
                             !.inbox = @ \o build_packet(q[1], q[2], <<>>)]
    /\ UNCHANGED <<reader, sock, reader_lock, inventory_active, inventory_ws_clients,
                   running, httpVars, wsVars, invVars>>
    /\ sockOps' = <<>>

\* The reader, inventorying, sends a tag notification.
DeviceTag ==
    /\ NoReturnPending
    /\ reader # 0 /\ sock[reader].st = "tcp" /\ net.peer = "up" /\ InboxRoom
    /\ net.reading_flag /\ \A s \in DOMAIN tag_count : tag_count[s] < MaxTags
    /\ net' = [net EXCEPT !.inbox = @ \o build_packet(CMD_TAG, 0, <<>>)]
    /\ UNCHANGED <<reader, sock, reader_lock, inventory_active, inventory_ws_clients,
                   running, httpVars, wsVars, invVars>>
    /\ sockOps' = <<>>

\* The reader closes (FIN) or resets (RST) the TCP connection.
PeerClose(how) ==
    /\ NoReturnPending
    /\ reader # 0 /\ sock[reader].st = "tcp" /\ net.peer = "up"
    /\ net' = [net EXCEPT !.peer = how, !.pending = {}]
    /\ UNCHANGED <<reader, sock, reader_lock, inventory_active, inventory_ws_clients,
                   running, httpVars, wsVars, invVars>>
    /\ sockOps' = <<>>

\* The browser goes away.
ClientGone(w) ==
    /\ NoReturnPending
    /\ conn[w] /\ wpc[w] # "closed"
    /\ conn' = [conn EXCEPT ![w] = FALSE]
    /\ UNCHANGED <<reader, sock, reader_lock, inventory_active, inventory_ws_clients,
                   running, httpVars, wpc, wsLog, invVars, net>>
    /\ sockOps' = <<>>

Next ==
    \/ \E h \in HttpTasks : \E o \in ConnectOutcomes : connect(h, o) /\ UNCHANGED <<codecVars, log_ring>>
    \/ \E h \in HttpTasks : disconnect(h) /\ UNCHANGED <<codecVars, log_ring>>
    \/ \E h \in HttpTasks : \E sub \in GetSubs : get_request(h, sub) /\ UNCHANGED <<codecVars, log_ring>>
    \/ \E h \in HttpTasks : get_response(h) /\ UNCHANGED <<codecVars, log_ring>>
    \/ \E h \in HttpTasks : reboot(h) /\ UNCHANGED <<codecVars, log_ring>>
    \/ \E h \in HttpTasks : factory_reset(h) /\ UNCHANGED <<codecVars, log_ring>>
    \/ \E h \in HttpTasks : factory_reset_close(h) /\ UNCHANGED <<codecVars, log_ring>>
    \/ \E h \in HttpTasks : HttpReturn(h) /\ UNCHANGED <<codecVars, log_ring>>
    \/ \E w \in WsTasks : inventory_ws_accept(w) /\ UNCHANGED <<codecVars, log_ring>>
    \/ \E w \in WsTasks : inventory_ws_start(w) /\ UNCHANGED <<codecVars, log_ring>>
    \/ \E w \in WsTasks : inventory_ws_spawn(w) /\ UNCHANGED <<codecVars, log_ring>>
    \/ \E w \in WsTasks : inventory_ws_stop(w) /\ UNCHANGED <<codecVars, log_ring>>
    \/ \E w \in WsTasks : inventory_ws_finally(w) /\ UNCHANGED <<codecVars, log_ring>>
    \/ \E s \in Streamers : run_inventory_start(s) /\ UNCHANGED <<codecVars, log_ring>>
    \/ \E s \in Streamers : run_inventory_failed(s) /\ UNCHANGED <<codecVars, log_ring>>
    \/ \E s \in Streamers : run_inventory_recv(s) /\ UNCHANGED <<codecVars, log_ring>>
    \/ \E s \in Streamers : run_inventory_sent(s) /\ UNCHANGED <<codecVars, log_ring>>
    \/ \E s \in Streamers : run_inventory_loop(s) /\ UNCHANGED <<codecVars, log_ring>>
    \/ DeviceReply /\ UNCHANGED <<codecVars, log_ring>>
    \/ DeviceTag /\ UNCHANGED <<codecVars, log_ring>>
    \/ \E how \in {"fin", "rst"} : PeerClose(how) /\ UNCHANGED <<codecVars, log_ring>>
    \/ \E w \in WsTasks : ClientGone(w) /\ UNCHANGED <<codecVars, log_ring>>

Spec == Init /\ [][Next]_vars

\* The bridge with a record of the client object each streamer wrote its
\* start frame to (0: none yet), kept in cout: an operator connects,
\* reboots and connects again while a browser runs an inventory.
HandoverInit ==
    /\ InitWith(HttpTasks, WsTasks, Streamers)
    /\ cstep = "handover" /\ cin = <<>> /\ cout = [s \in Streamers |-> 0]
    /\ log_ring = <<>>

\* reader.send(start_pkt) of _run_inventory was called in this step.
SentStart(s) ==
    \E i \in 1..Len(sockOps') :
        /\ sockOps'[i].task = s /\ sockOps'[i].op = "send"
        /\ sockOps'[i].arg = <<CMD_RF, SUB_START>>

StartRecorded ==
    /\ cout' = [s \in Streamers |-> IF SentStart(s) THEN reader ELSE cout[s]]
    /\ UNCHANGED <<cstep, cin, log_ring>>

HandoverNext ==
    \/ \E h \in HttpTasks : connect(h, "ok") /\ StartRecorded
    \/ \E h \in HttpTasks : reboot(h) /\ StartRecorded
    \/ \E h \in HttpTasks : HttpReturn(h) /\ StartRecorded
    \/ \E w \in WsTasks : inventory_ws_accept(w) /\ StartRecorded
    \/ \E w \in WsTasks : inventory_ws_start(w) /\ StartRecorded
    \/ \E w \in WsTasks : inventory_ws_spawn(w) /\ StartRecorded
    \/ \E w \in WsTasks : inventory_ws_stop(w) /\ StartRecorded
    \/ \E w \in WsTasks : inventory_ws_finally(w) /\ StartRecorded
    \/ \E s \in Streamers : run_inventory_start(s) /\ StartRecorded
    \/ \E s \in Streamers : run_inventory_failed(s) /\ StartRecorded
    \/ \E s \in Streamers : run_inventory_recv(s) /\ StartRecorded
    \/ \E s \in Streamers : run_inventory_sent(s) /\ StartRecorded
    \/ \E s \in Streamers : run_inventory_loop(s) /\ StartRecorded
    \/ DeviceTag /\ StartRecorded
    \/ \E how \in {"fin", "rst"} : PeerClose(how) /\ StartRecorded
    \/ \E w \in WsTasks : ClientGone(w) /\ StartRecorded

HandoverSpec == HandoverInit /\ [][HandoverNext]_vars

\* Two browsers on /ws/inventory and one operator who connects the reader:
\* the same handlers and tasks; the browsers send start and leave, no other
\* HTTP request is made and the reader stays connected.
SessionInit ==
    /\ InitWith(HttpTasks, SessionWs, SessionStreamers)
    /\ cstep = "off" /\ cin = <<>> /\ cout = <<>>
    /\ log_ring = <<>>

SessionNext ==
    \/ \E h \in HttpTasks : connect(h, "ok") /\ UNCHANGED <<codecVars, log_ring>>
    \/ \E h \in HttpTasks : HttpReturn(h) /\ UNCHANGED <<codecVars, log_ring>>
    \/ \E w \in SessionWs : inventory_ws_accept(w) /\ UNCHANGED <<codecVars, log_ring>>
    \/ \E w \in SessionWs : inventory_ws_start(w) /\ UNCHANGED <<codecVars, log_ring>>
    \/ \E w \in SessionWs : inventory_ws_spawn(w) /\ UNCHANGED <<codecVars, log_ring>>
    \/ \E w \in SessionWs : inventory_ws_finally(w) /\ UNCHANGED <<codecVars, log_ring>>
    \/ \E s \in SessionStreamers : run_inventory_start(s) /\ UNCHANGED <<codecVars, log_ring>>
    \/ \E s \in SessionStreamers : run_inventory_recv(s) /\ UNCHANGED <<codecVars, log_ring>>
    \/ \E s \in SessionStreamers : run_inventory_sent(s) /\ UNCHANGED <<codecVars, log_ring>>
    \/ \E s \in SessionStreamers : run_inventory_loop(s) /\ UNCHANGED <<codecVars, log_ring>>
    \/ DeviceTag /\ UNCHANGED <<codecVars, log_ring>>
    \/ \E w \in SessionWs : ClientGone(w) /\ UNCHANGED <<codecVars, log_ring>>

SessionSpec == SessionInit /\ [][SessionNext]_vars

(* ------------------------------------------------------------------ *)
(* One inventory run fed with a chosen sequence of frames              *)
(* ------------------------------------------------------------------ *)

\* Frames the reader may send during an inventory: tag notifications (one
\* whose payload reads like a frame of its own) and a late configuration
\* answer.
StreamFrames ==
    { [cmd |-> CMD_TAG, sub |-> 0, data |-> <<>>],
      [cmd |-> CMD_TAG, sub |-> 48, data |-> <<HEADER, CMD_TAG, 0, 0, 0, 0, 0>>],
      [cmd |-> CMD_CONFIG, sub |-> SUB_NETWORK, data |-> <<CMD_TAG>>] }

FrameLists == UNION {[1..n -> StreamFrames] : n \in 1..MaxFrames}

\* Each of these frames as the reader's build of it.
FramePacket == [f \in StreamFrames |-> build_packet(f.cmd, f.sub, f.data)]

\* The bytes of a sequence of frames on the wire.
RECURSIVE Wire(_)
Wire(frames) ==
    IF frames = <<>> THEN <<>> ELSE FramePacket[frames[1]] \o Wire(Tail(frames))

\* The offsets in Wire(frames) at which a frame ends.
FrameEnds(frames) == {Len(Wire(SubSeq(frames, 1, k))) : k \in 0..Len(frames)}

\* TCP may cut the stream anywhere; the cut tried inside a frame is after
\* its length field.
SegmentEnds(frames) ==
    FrameEnds(frames)
        \cup {e + k : e \in FrameEnds(frames) \ {Len(Wire(frames))}, k \in {5}}

\* The reader, inventorying, puts the next n bytes of its frames on the
\* connection.  cout.sent counts the bytes sent so far.
DeviceSend(n) ==
    LET wire == cin.wire IN
    /\ cstep = "stream" /\ NoReturnPending
    /\ reader # 0 /\ sock[reader].st = "tcp" /\ net.peer = "up" /\ net.reading_flag
    /\ cout.sent + n <= Len(wire)
    /\ cout.sent + n \in SegmentEnds(cin.frames)
    /\ net' = [net EXCEPT !.inbox = @ \o SubSeq(wire, cout.sent + 1, cout.sent + n)]
    /\ cout' = [cout EXCEPT !.sent = @ + n]
    /\ sockOps' = <<>>
    /\ UNCHANGED <<reader, sock, reader_lock, inventory_active, inventory_ws_clients,
                   running, httpVars, wsVars, invVars, cstep, cin, log_ring>>

\* run_inventory_recv, with the stream offsets between which the chunk it
\* read lies kept in cout.reads.
StreamRecv(s) ==
    /\ run_inventory_recv(s)
    /\ cout' = IF net.inbox # <<>> /\ IsOpen(reader)
               THEN [cout EXCEPT !.reads =
                        @ \cup {<<cout.sent - Len(net.inbox), cout.sent>>}]
               ELSE cout
    /\ UNCHANGED <<cstep, cin, log_ring>>

\* The one browser and the one run of _run_inventory this scenario is about.
StreamWs == {<<"ws", 1>>}
StreamRun == {<<"inv", 1>>}

StreamInit ==
    /\ InitWith(HttpTasks, StreamWs, StreamRun)
    /\ cstep = "stream"
    /\ cin \in {[frames |-> fs, wire |-> Wire(fs)] : fs \in FrameLists}
    /\ cout = [sent |-> 0, reads |-> {}]
    /\ log_ring = <<>>

\* One operator connects the reader, one browser starts the inventory and
\* stays; the reader sends the chosen frames.
StreamNext ==
    \/ \E h \in HttpTasks : connect(h, "ok") /\ UNCHANGED <<codecVars, log_ring>>
    \/ \E h \in HttpTasks : HttpReturn(h) /\ UNCHANGED <<codecVars, log_ring>>
    \/ \E w \in StreamWs : inventory_ws_accept(w) /\ UNCHANGED <<codecVars, log_ring>>
    \/ \E w \in StreamWs : inventory_ws_start(w) /\ UNCHANGED <<codecVars, log_ring>>
    \/ \E w \in StreamWs : inventory_ws_spawn(w) /\ UNCHANGED <<codecVars, log_ring>>
    \/ \E s \in StreamRun : run_inventory_start(s) /\ UNCHANGED <<codecVars, log_ring>>
    \/ \E s \in StreamRun : StreamRecv(s)
    \/ \E s \in StreamRun : run_inventory_sent(s) /\ UNCHANGED <<codecVars, log_ring>>
    \/ \E s \in StreamRun : run_inventory_loop(s) /\ UNCHANGED <<codecVars, log_ring>>
    \/ \E n \in 1..14 : DeviceSend(n)

StreamSpec == StreamInit /\ [][StreamNext]_vars

(* ------------------------------------------------------------------ *)
(* GET /api/tags: the stored tag records                               *)
(* ------------------------------------------------------------------ *)

SUB_TAGS == 27          \* 0x1B: get tag records

\* The payloads of the tag records the reader has stored.
RecordLists == UNION {[1..n -> {<<1>>, <<2>>}] : n \in 1..MaxRecords}

TagsInit ==
    /\ InitWith(HttpTasks, WsTasks, Streamers)
    /\ cstep = "tags"
    /\ cin \in {[records |-> rs] : rs \in RecordLists}
    /\ cout = [sent |-> 0, got |-> <<>>, returned |-> NoFrame]
    /\ log_ring = <<>>

\* GET /api/tags to the first recv of CL7206C2Client.get_tags:
\* require_reader, the lock, build_packet(0x01, 0x1B) and send.
get_tags_request(h) ==
    LET req == [ep |-> "tags", sub |-> SUB_TAGS]
        pkt == build_packet(CMD_CONFIG, SUB_TAGS, <<>>)
    IN
    /\ cstep = "tags"
    /\ HttpEnter(h)
    /\ IF reader = 0 THEN NotConnected(h, req) /\ UNCHANGED cout
       ELSE IF reader_lock # NoTask
       THEN HttpWaitLock(h, req) /\ UNCHANGED <<inventory_active, cout>>
       ELSE IF SendRaises(reader)
       THEN /\ sockOps' = <<SendOp(h, h, "raised", pkt)>>
            /\ HttpDone(h, req, Resp(500, "exception"))
            /\ UNCHANGED <<reader, sock, reader_lock, inventory_active,
                           inventory_ws_clients, wsVars, invVars, net, cout>>
       ELSE /\ net' = NetSend(net, pkt)
            /\ sockOps' = <<SendOp(h, h, "ok", pkt)>>
            /\ reader_lock' = h
            /\ running' = h
            /\ hpc' = [hpc EXCEPT ![h] = "recv"]
            /\ hreq' = [hreq EXCEPT ![h] = req]
            /\ cout' = [cout EXCEPT !.got = <<>>, !.returned = NoFrame]
            /\ UNCHANGED <<reader, sock, inventory_active, inventory_ws_clients, hresp,
                           wsVars, invVars>>
    /\ UNCHANGED <<cstep, cin, log_ring>>

\* What get_tags hands to its caller once its loop is over: the function
\* has no return statement, whatever it counted.
get_tags_return(got) == NoFrame

\* One pass of the loop of get_tags.  A recv with bytes counts the frame
\* parse_packet finds in them and the loop goes on, unless the five seconds
\* are over (late); a recv without bytes (timeout, end of stream) leaves
\* the loop; then the lock is released and parse_result gets what
\* get_tags returned.  An exception of recv other than socket.timeout
\* leaves get_tags and the handler.
get_tags_recv(h, late) ==
    LET out    == recv(reader)
        result == IF out.kind = "data" THEN parse_packet(out.data) ELSE NoFrame
        got    == IF result # NoFrame THEN Append(cout.got, result) ELSE cout.got
    IN
    /\ cstep = "tags"
    /\ hpc[h] = "recv" /\ hreq[h].ep = "tags" /\ running = h
    /\ sockOps' = <<Op(h, "recv", reader_lock, out.kind)>>
    /\ IF out.kind = "data" /\ ~late
       THEN /\ net' = [net EXCEPT !.inbox = <<>>]
            /\ cout' = [cout EXCEPT !.got = got]
            /\ UNCHANGED <<reader_lock, running, httpVars>>
       ELSE /\ net' = IF out.kind = "data" THEN [net EXCEPT !.inbox = <<>>] ELSE net
            /\ cout' = [cout EXCEPT !.got = got,
                                    !.returned = IF out.kind = "error" THEN NoFrame
                                                 ELSE get_tags_return(got)]
            /\ reader_lock' = NoTask
            /\ HttpDone(h, hreq[h], IF out.kind = "error" THEN Resp(500, "exception")
                                    ELSE parse_result(get_tags_return(got)))
    /\ UNCHANGED <<reader, sock, inventory_active, inventory_ws_clients, wsVars, invVars,
                   cstep, cin, log_ring>>

\* The reader answers the (0x01, 0x1B) request it holds with its next
\* stored record, one frame per record.
DeviceRecord ==
    LET k == cout.sent + 1 IN
    /\ cstep = "tags" /\ NoReturnPending
    /\ reader # 0 /\ sock[reader].st = "tcp" /\ net.peer = "up"
    /\ <<CMD_CONFIG, SUB_TAGS>> \in net.pending
    /\ k <= Len(cin.records)
    /\ net' = [net EXCEPT
                 !.inbox = @ \o build_packet(CMD_CONFIG, SUB_TAGS, cin.records[k]),
                 !.pending = IF k = Len(cin.records)
                             THEN @ \ {<<CMD_CONFIG, SUB_TAGS>>} ELSE @]
    /\ cout' = [cout EXCEPT !.sent = k]
    /\ sockOps' = <<>>
    /\ UNCHANGED <<reader, sock, reader_lock, inventory_active, inventory_ws_clients,
                   running, httpVars, wsVars, invVars, cstep, cin, log_ring>>

\* An operator connects the reader and asks for the stored records.
TagsNext ==
    \/ \E h \in HttpTasks : connect(h, "ok") /\ UNCHANGED <<codecVars, log_ring>>
    \/ \E h \in HttpTasks : HttpReturn(h) /\ UNCHANGED <<codecVars, log_ring>>
    \/ \E h \in HttpTasks : get_tags_request(h)
    \/ \E h \in HttpTasks : \E late \in BOOLEAN : get_tags_recv(h, late)
    \/ DeviceRecord
    \/ \E how \in {"fin", "rst"} : PeerClose(how) /\ UNCHANGED <<codecVars, log_ring>>

TagsSpec == TagsInit /\ [][TagsNext]_vars

(* ------------------------------------------------------------------ *)
(* The log ring (RingHandler) behind the HTTP handlers                 *)
(* ------------------------------------------------------------------ *)

LOG_MAXLEN == 2000      \* deque(maxlen=2000)
MaxPolls == 2           \* polls of a GET /api/logs client

\* The number of the last append: entries carry the position of their
\* append (seq) where the program stores the time of the record (ts).
Serial(ring) == IF ring = <<>> THEN 0 ELSE ring[Len(ring)].seq

\* Fault variant of emit: the deque has no maxlen.
emit_unbounded(ring, record) ==
    Append(ring, [seq |-> Serial(ring) + 1, level |-> record.level, cat |-> record.cat])

\* RingHandler.emit: log_ring.append(entry) on a deque(maxlen=2000), which
\* discards from the left once it is full.
emit(ring, record) ==
    LET entry == [seq |-> Serial(ring) + 1, level |-> record.level, cat |-> record.cat]
        all   == Append(ring, entry)
    IN  IF Len(all) > LOG_MAXLEN THEN SubSeq(all, Len(all) - LOG_MAXLEN + 1, Len(all))
        ELSE all

\* logm(level, msg, cat): the record the logger hands to its handlers.
logm(level, cat) == [level |-> level, cat |-> cat]

log_info(cat) == logm("INFO", cat)
log_warn(cat) == logm("WARNING", cat)
log_error(cat) == logm("ERROR", cat)
log_proto == logm("DEBUG", "PROTO")
log_cmd == logm("INFO", "CMD")

\* The log calls of a handler that ended with the given response, in the
\* order the handler makes them.
Logs(ep, code) ==
    CASE ep = "connect" /\ code = 200 -> <<log_info("SYS"), log_info("CMD")>>
      [] ep = "connect" /\ code = 502 -> <<log_info("SYS"), log_error("SYS")>>
      [] ep = "disconnect" -> <<log_info("CMD")>>
      [] ep = "get" /\ code = 200 -> <<log_cmd, log_proto>>
      [] ep = "get" /\ code = 504 -> <<log_warn("CMD")>>
      [] ep \in {"reboot", "factoryreset"} /\ code = 200 -> <<log_warn("CMD")>>
      [] OTHER -> <<>>

RECURSIVE emit_all(_, _)
emit_all(ring, records) ==
    IF records = <<>> THEN ring
    ELSE emit_all(emit(ring, Head(records)), Tail(records))

\* The ring after a step of handler h: the records of the handler that
\* ended in this step, appended in order.
Logged(h) ==
    LET records == IF hpc[h] # "done" /\ hpc'[h] = "done"
                   THEN Logs(hreq'[h].ep, hresp'[h].code) ELSE <<>>
    IN  /\ Serial(log_ring) + Len(records) <= cin.start + MaxLogged
        /\ log_ring' = emit_all(log_ring, records)

\* The ring of a bridge that has been running: empty, or holding the
\* entries of n earlier log calls (failed connects, and a disconnect where
\* n is odd).
Prefill(n) ==
    [i \in 1..n |-> [seq |-> i, level |-> IF i % 2 = 1 THEN "INFO" ELSE "ERROR",
                     cat |-> IF i = n /\ n % 2 = 1 THEN "CMD" ELSE "SYS"]]

LogStarts == {0, LOG_MAXLEN - 1, LOG_MAXLEN}

LogInit ==
    /\ InitWith(HttpTasks, {}, {})
    /\ cstep = "log" /\ cin \in {[start |-> n] : n \in LogStarts} /\ cout = <<>>
    /\ log_ring = Prefill(cin.start)

LogNext ==
    \/ \E h \in HttpTasks : \E o \in ConnectOutcomes :
          connect(h, o) /\ Logged(h) /\ UNCHANGED codecVars
    \/ \E h \in HttpTasks : disconnect(h) /\ Logged(h) /\ UNCHANGED codecVars
    \/ \E h \in HttpTasks : \E sub \in GetSubs :
          get_request(h, sub) /\ Logged(h) /\ UNCHANGED codecVars
    \/ \E h \in HttpTasks : get_response(h) /\ Logged(h) /\ UNCHANGED codecVars
    \/ \E h \in HttpTasks : reboot(h) /\ Logged(h) /\ UNCHANGED codecVars
    \/ \E h \in HttpTasks : factory_reset(h) /\ Logged(h) /\ UNCHANGED codecVars
    \/ \E h \in HttpTasks : factory_reset_close(h) /\ Logged(h) /\ UNCHANGED codecVars
    \/ \E h \in HttpTasks : HttpReturn(h) /\ UNCHANGED <<codecVars, log_ring>>
    \/ DeviceReply /\ UNCHANGED <<codecVars, log_ring>>
    \/ \E how \in {"fin", "rst"} : PeerClose(how) /\ UNCHANGED <<codecVars, log_ring>>

LogSpec == LogInit /\ [][LogNext]_vars

\* A client of GET /api/logs that has not polled yet.  total is the
\* total of its last response, logs the append numbers of the entries of
\* that response, serial the number of appends made when it was answered
\* and before the number of appends made at the response before it.
PollInit ==
    /\ InitWith(HttpTasks, {}, {})
    /\ cstep = "log" /\ cin \in {[start |-> n] : n \in LogStarts}
    /\ cout = [polls |-> 0, total |-> 0, logs |-> <<>>, serial |-> 0, before |-> 0]
    /\ log_ring = Prefill(cin.start)

\* get_logs(after) without cat and level filters: the entries of the ring
\* from index after on, and the length of the ring as total.
get_logs(ring, after) ==
    LET entries == IF after > 0 THEN Slice(ring, after, Len(ring)) ELSE ring
    IN  [logs |-> entries, total |-> Len(ring)]

\* The client polls, passing the total of its previous response.
poll_logs ==
    LET response == get_logs(log_ring, cout.total)
    IN
    /\ cstep = "log" /\ cout.polls < MaxPolls
    /\ cout' = [polls |-> cout.polls + 1, total |-> response.total,
                logs |-> [i \in 1..Len(response.logs) |-> response.logs[i].seq],
                serial |-> Serial(log_ring), before |-> cout.serial]
    /\ UNCHANGED <<cstep, cin, bridgeVars>>

PollNext ==
    \/ LogNext
    \/ poll_logs

PollSpec == PollInit /\ [][PollNext]_vars

(* ------------------------------------------------------------------ *)
(* ConfigPram (tools/cl7206c2_tool.py): the config_pram image          *)
(* ------------------------------------------------------------------ *)

SIZE == 1072            \* 0x0430
ANT_BLOCK_SIZE == 256   \* 0x100
ANT_BLOCK_START == 28   \* 0x1C

\* A call that raised leaves the bytearray as it was.
Raised(data) == [raised |-> TRUE, data |-> data]
Returned(data) == [raised |-> FALSE, data |-> data]

\* An address string as the text between its dots: the digits of an
\* integer (num, val) or something int() does not accept.
Num(v) == [num |-> TRUE, val |-> v]
NotNum == [num |-> FALSE, val |-> 0]

\* self.data[a:b] = new on a bytearray: the bytes a..b-1 are taken out and
\* new is put in their place, whatever its length.
SliceAssign(data, a, b, new) ==
    LET lo == IF a > Len(data) THEN Len(data) ELSE a
        hi == IF b > Len(data) THEN Len(data) ELSE IF b < lo THEN lo ELSE b
    IN  SubSeq(data, 1, lo) \o new \o SubSeq(data, hi + 1, Len(data))

\* parts = [int(x) for x in s.split('.')]; self.data[a:b] = bytes(parts).
\* int raises on a part that is no integer, bytes on a value outside 0..255.
SetAddress(data, a, b, str) ==
    IF \E i \in 1..Len(str) : ~str[i].num THEN Raised(data)
    ELSE LET parts == [i \in 1..Len(str) |-> str[i].val] IN
         IF \E i \in 1..Len(parts) : parts[i] < 0 \/ parts[i] > 255 THEN Raised(data)
         ELSE Returned(SliceAssign(data, a, b, parts))

set_ip(data, ip_str) == SetAddress(data, 1, 5, ip_str)
set_mask(data, mask_str) == SetAddress(data, 5, 9, mask_str)
set_gateway(data, gw_str) == SetAddress(data, 9, 13, gw_str)

\* Fault variant of set_antenna_power: the power is written at the start
\* of the antenna block.
set_antenna_power_at_base(data, ant_num, power) ==
    LET base == ANT_BLOCK_START + ant_num * ANT_BLOCK_SIZE
        idx  == IF base < 0 THEN base + Len(data) ELSE base
    IN  IF idx < 0 \/ idx >= Len(data) \/ power < 0 \/ power > 255 THEN Raised(data)
        ELSE Returned([data EXCEPT ![idx + 1] = power])

\* self.data[base + 3] = power: a negative index counts from the end, an
\* index outside the bytearray raises IndexError, a value outside 0..255
\* ValueError.
set_antenna_power(data, ant_num, power) ==
    LET base == ANT_BLOCK_START + ant_num * ANT_BLOCK_SIZE
        idx  == IF base + 3 < 0 THEN base + 3 + Len(data) ELSE base + 3
    IN  IF idx < 0 \/ idx >= Len(data) \/ power < 0 \/ power > 255 THEN Raised(data)
        ELSE Returned([data EXCEPT ![idx + 1] = power])

(* config_reset of the reader firmware, as its steps are documented *)

MAC_OFFSET == 13        \* 0x0D
MAC_LEN == 6
RESET_LEN == 1070       \* 0x42E

\* memcpy(dst + off, src, n) for the first n bytes of src.
Memcpy(dst, off, src, n) ==
    [i \in 1..Len(dst) |-> IF i - 1 >= off /\ i - 1 < off + n THEN src[i - off] ELSE dst[i]]

\* Fault variant of config_reset: the MAC is not put back.
config_reset_without_mac(config_struct, def_config_struct) ==
    Memcpy(config_struct, 0, def_config_struct, RESET_LEN)

\* config_reset: save the MAC, copy 0x42E bytes of the defaults over the
\* configuration, put the MAC back; the result is what is written to the
\* recreated file.
config_reset(config_struct, def_config_struct) ==
    LET saved_mac == SubSeq(config_struct, MAC_OFFSET + 1, MAC_OFFSET + MAC_LEN)
        restored  == Memcpy(config_struct, 0, def_config_struct, RESET_LEN)
    IN  Memcpy(restored, MAC_OFFSET, saved_mac, MAC_LEN)

\* Candidates for def_config_struct, the defaults blob of the firmware.
DefaultBlobs == { [i \in 1..SIZE |-> 17], [i \in 1..SIZE |-> (3 * i) % 256] }

\* Files handed to ConfigPram(filename=...): images of 1072 bytes, and
\* files that are empty, one byte short and one byte long.
ConfigFiles ==
    { [i \in 1..SIZE |-> 0], [i \in 1..SIZE |-> i % 256], [i \in 1..SIZE |-> 255],
      <<>>, [i \in 1..(SIZE - 1) |-> 0], [i \in 1..(SIZE + 1) |-> i % 256] }

\* Address strings: four octets, three, five, one, an octet of 256, a word.
AddressStrings ==
    { <<Num(10), Num(0), Num(0), Num(1)>>, <<Num(255), Num(255), Num(255), Num(0)>>,
      <<Num(1), Num(2), Num(3)>>, <<Num(1), Num(2), Num(3), Num(4), Num(5)>>,
      <<Num(7)>>, <<Num(256), Num(0), Num(0), Num(1)>>, <<NotNum>> }

AntennaNumbers == {-1, 0, 1, 2, 3, 4}
Powers == {0, 30, 255, 256}

ConfigInit ==
    /\ InitWith(HttpTasks, WsTasks, Streamers)
    /\ log_ring = <<>>
    /\ cstep = "file" /\ cin \in {[file |-> f] : f \in ConfigFiles} /\ cout = <<>>

\* ConfigPram(filename=...): the file is read and its length checked.
ConfigPram_init ==
    /\ cstep = "file"
    /\ IF Len(cin.file) # SIZE
       THEN cstep' = "rejected" /\ cout' = [raised |-> TRUE]
       ELSE /\ cstep' = "config"
            /\ cout' = [data |-> cin.file, edits |-> 0,
                        last |-> [op |-> "init", args |-> <<>>, raised |-> FALSE]]
    /\ UNCHANGED <<cin, bridgeVars>>

\* One setter call on the object; r is what the call did.
ConfigEdit(op, args, r) ==
    /\ cstep = "config" /\ cout.edits < MaxEdits
    /\ cout' = [data |-> r.data, edits |-> cout.edits + 1,
                last |-> [op |-> op, args |-> args, raised |-> r.raised]]
    /\ UNCHANGED <<cstep, cin, bridgeVars>>

config_set_ip(str) == ConfigEdit("set_ip", str, set_ip(cout.data, str))
config_set_mask(str) == ConfigEdit("set_mask", str, set_mask(cout.data, str))
config_set_gateway(str) == ConfigEdit("set_gateway", str, set_gateway(cout.data, str))
config_set_antenna_power(n, p) ==
    ConfigEdit("set_antenna_power", <<n, p>>, set_antenna_power(cout.data, n, p))

\* save(filename): f.write(self.data)
config_save ==
    /\ cstep = "config"
    /\ cstep' = "saved"
    /\ cout' = [data |-> cout.data, edits |-> cout.edits, last |-> cout.last,
                file |-> cout.data]
    /\ UNCHANGED <<cin, bridgeVars>>

\* Factory reset (CMD=0x01 SUB=0x14) of a reader whose config_struct is
\* the image: config_reset with the defaults blob def.
factory_reset_image(def) ==
    /\ cstep = "config" /\ Len(cout.data) = SIZE
    /\ cstep' = "reset"
    /\ cout' = [data |-> config_reset(cout.data, def), before |-> cout.data,
                defaults |-> def]
    /\ UNCHANGED <<cin, bridgeVars>>

GLOBAL_START == 1052    \* 0x41C

\* struct.unpack('>H', data[a:a+2])[0]
UnpackU16(data, a) == data[a + 1] * 256 + data[a + 2]

\* The typed accessors of ConfigPram, dotted strings written as the
\* sequence of their numbers and the MAC string as the hex digits of its
\* bytes.
ip(data) == <<data[2], data[3], data[4], data[5]>>
mask(data) == <<data[6], data[7], data[8], data[9]>>
gateway(data) == <<data[10], data[11], data[12], data[13]>>
device_mac(data) == hex(Slice(data, 13, 18))
local_port(data) == UnpackU16(data, 20)
server_ip(data) == <<data[23], data[24], data[25], data[26]>>
server_port(data) == UnpackU16(data, 26)
wiegand_enabled(data) == data[GLOBAL_START + 3 + 1]
wiegand_format(data) == data[GLOBAL_START + 4 + 1]
wiegand_bits(data) == data[GLOBAL_START + 5 + 1]

\* The fields show() prints, read through the accessors.
config_show ==
    /\ cstep = "config"
    /\ cstep' = "shown"
    /\ cout' = [data |-> cout.data, edits |-> cout.edits, last |-> cout.last,
                view |-> [ip |-> ip(cout.data), mask |-> mask(cout.data),
                          gateway |-> gateway(cout.data),
                          device_mac |-> device_mac(cout.data),
                          local_port |-> local_port(cout.data),
                          server_ip |-> server_ip(cout.data),
                          server_port |-> server_port(cout.data),
                          wiegand_enabled |-> wiegand_enabled(cout.data),
                          wiegand_format |-> wiegand_format(cout.data),
                          wiegand_bits |-> wiegand_bits(cout.data)]]
    /\ UNCHANGED <<cin, bridgeVars>>

ConfigNext ==
    \/ ConfigPram_init
    \/ \E def \in DefaultBlobs : factory_reset_image(def)
    \/ \E str \in AddressStrings : config_set_ip(str)
    \/ \E str \in AddressStrings : config_set_mask(str)
    \/ \E str \in AddressStrings : config_set_gateway(str)
    \/ \E n \in AntennaNumbers : \E p \in Powers : config_set_antenna_power(n, p)
    \/ config_save
    \/ config_show

ConfigSpec == ConfigInit /\ [][ConfigNext]_vars

(* ------------------------------------------------------------------ *)
(* The tag notification parser of the bridge, one loop pass at a time  *)
(* ------------------------------------------------------------------ *)

MaxPort == 1            \* highest RF port of a set_antenna_power call
MaxTlvs == 2            \* TLV items behind the EPC of a generated payload

\* result[key] = value on a dict.
Put(result, key, value) == (key :> value) @@ result

\* data[i] on a 0-based byte string: the byte, or the IndexError Python
\* raises for an index at or behind the end.
IndexError == -1
Get(data, i) == IF i < Len(data) THEN data[i + 1] ELSE IndexError

\* The statements before the TLV loop: the four fields every record has,
\* sub = packet[2] (which raises on a packet of fewer than three bytes),
\* data = packet[5:-2], and PC and EPC when data has four bytes or more.
\* looping says whether the while statement is reached.
tag_head(packet, count, now) ==
    LET result  == [type |-> "tag", count |-> count, timestamp |-> now,
                    raw_hex |-> hex(packet)]
        sub     == Get(packet, 2)
        data    == Slice(packet, 5, Len(packet) - 2)
        pc      == Shl(data[1], 8) + data[2]
        epc_len == BitAnd(Shr(pc, 11), 31) * 2
        has_epc == epc_len > 0 /\ Len(data) >= 2 + epc_len
    IN  IF sub = IndexError
        THEN [result |-> result, raised |-> TRUE, looping |-> FALSE, sub |-> sub,
              data |-> <<>>, tlv_offset |-> 0]
        ELSE IF Len(data) < 4
        THEN [result |-> result, raised |-> FALSE, looping |-> FALSE, sub |-> sub,
              data |-> data, tlv_offset |-> 0]
        ELSE [result |-> IF has_epc
                         THEN Put(Put(result, "epc", hex(Slice(data, 2, 2 + epc_len))),
                                  "pc", hex(<<data[1], data[2]>>))
                         ELSE result,
              raised |-> FALSE, looping |-> TRUE, sub |-> sub,
              data |-> data, tlv_offset |-> 2 + epc_len]

\* The loop body with TLV 0x06 taken without looking at what is left.
tlv_iteration_unguarded(data, tlv_offset, result) ==
    LET n        == Len(data)
        tlv_type == Get(data, tlv_offset)
        b1       == Get(data, tlv_offset + 1)
        b2       == Get(data, tlv_offset + 2)
        Stay(r, off)  == [result |-> r, tlv_offset |-> off, left |-> FALSE,
                          raised |-> FALSE]
        Leave         == [result |-> result, tlv_offset |-> tlv_offset, left |-> TRUE,
                          raised |-> FALSE]
        Raise(r)      == [result |-> r, tlv_offset |-> tlv_offset, left |-> TRUE,
                          raised |-> TRUE]
    IN  IF ~(tlv_offset < n) THEN Leave
        ELSE IF tlv_type = 1 /\ tlv_offset + 2 < n
        THEN LET sub_ant == IF tlv_offset + 3 <= n THEN b2 ELSE 0
                 r       == Put(Put(result, "ant_num", b1), "sub_ant", sub_ant)
             IN  IF b1 = IndexError THEN Raise(result)
                 ELSE IF sub_ant = IndexError THEN Raise(Put(result, "ant_num", b1))
                 ELSE Stay(Put(r, "antenna", r["ant_num"] * 2 + r["sub_ant"] + 1),
                           tlv_offset + 3)
        ELSE IF tlv_type = 2 /\ tlv_offset + 2 < n
        THEN IF b1 = IndexError THEN Raise(result)
             ELSE Stay(Put(result, "rssi", b1), tlv_offset + 3)
        ELSE IF tlv_type = 6
        THEN LET r == Put(result, "sub_ant", b1)
             IN  IF b1 = IndexError THEN Raise(result)
                 ELSE Stay(IF "ant_num" \in DOMAIN r
                           THEN Put(r, "antenna", r["ant_num"] * 2 + r["sub_ant"] + 1)
                           ELSE r,
                           tlv_offset + 2)
        ELSE Leave

\* One test of the while condition and, when it holds, one pass of the
\* loop body.  left: the loop is over (condition false, or break);
\* raised: a read of the pass was behind the end of data, result then
\* holds what was assigned before that read.
tlv_iteration(data, tlv_offset, result) ==
    LET n        == Len(data)
        tlv_type == Get(data, tlv_offset)
        b1       == Get(data, tlv_offset + 1)
        b2       == Get(data, tlv_offset + 2)
        Stay(r, off)  == [result |-> r, tlv_offset |-> off, left |-> FALSE,
                          raised |-> FALSE]
        Leave         == [result |-> result, tlv_offset |-> tlv_offset, left |-> TRUE,
                          raised |-> FALSE]
        Raise(r)      == [result |-> r, tlv_offset |-> tlv_offset, left |-> TRUE,
                          raised |-> TRUE]
    IN  IF ~(tlv_offset < n) THEN Leave
        ELSE IF tlv_type = 1 /\ tlv_offset + 2 < n
        THEN LET sub_ant == IF tlv_offset + 3 <= n THEN b2 ELSE 0
                 r       == Put(Put(result, "ant_num", b1), "sub_ant", sub_ant)
             IN  IF b1 = IndexError THEN Raise(result)
                 ELSE IF sub_ant = IndexError THEN Raise(Put(result, "ant_num", b1))
                 ELSE Stay(Put(r, "antenna", r["ant_num"] * 2 + r["sub_ant"] + 1),
                           tlv_offset + 3)
        ELSE IF tlv_type = 2 /\ tlv_offset + 2 < n
        THEN IF b1 = IndexError THEN Raise(result)
             ELSE Stay(Put(result, "rssi", b1), tlv_offset + 3)
        ELSE IF tlv_type = 6 /\ tlv_offset + 1 < n
        THEN LET r == Put(result, "sub_ant", b1)
             IN  IF b1 = IndexError THEN Raise(result)
                 ELSE Stay(IF "ant_num" \in DOMAIN r
                           THEN Put(r, "antenna", r["ant_num"] * 2 + r["sub_ant"] + 1)
                           ELSE r,
                           tlv_offset + 2)
        ELSE Leave

\* The end of the function: sub_cmd after the if statement, or
\* parse_error in the except clause.
tag_return(result, sub, raised) ==
    IF raised THEN Put(result, "parse_error", "index out of range")
    ELSE Put(result, "sub_cmd", hex(<<sub>>))

\* Payload pieces: Protocol-Control words declaring 0, 1 and 6 EPC words,
\* and TLV items, whole, cut short and unknown.
PcWords == { <<0, 0>>, <<8, 0>>, <<48, 0>> }

EpcOf(pc) == [i \in 1..(BitAnd(Shr(Shl(pc[1], 8) + pc[2], 11), 31) * 2) |-> (37 * i) % 256]

TlvItems ==
    { <<1, a, s>> : a \in {0, 3, 4}, s \in {0, 1, 2} }
    \cup { <<6, 0>>, <<6, 1>>, <<2, 18>>, <<2, 18, 52>>, <<1, 2>>, <<1>>, <<6>>,
           <<3, 0>>, <<255>> }

RECURSIVE Concat(_)
Concat(items) == IF items = <<>> THEN <<>> ELSE Head(items) \o Concat(Tail(items))

TlvRuns == UNION {[1..n -> TlvItems] : n \in 0..MaxTlvs}

\* Packets handed to the parser: tag notifications of the three
\* sub-commands built as the reader frames them, their EPC cut short, and
\* byte strings too short to be a frame.
TagPackets ==
    { build_packet(CMD_TAG, 0, pc \o EpcOf(pc) \o Concat(run)) :
          pc \in PcWords, run \in TlvRuns }
    \cup { build_packet(CMD_TAG, sub, <<48, 0, 1, 2, 3>>) : sub \in {0, 32, 48} }
    \cup { SubSeq(<<HEADER, CMD_TAG, 32, 0, 4, 8, 0, 1, 0>>, 1, n) : n \in 0..9 }

TagInit ==
    /\ InitWith(HttpTasks, WsTasks, Streamers)
    /\ log_ring = <<>>
    /\ cstep = "packet"
    /\ cin \in {[packet |-> p, count |-> c, now |-> t] :
                    p \in TagPackets, c \in {1, 2}, t \in {0}}
    /\ cout = <<>>

\* _parse_tag_notification up to its while statement.
tag_enter ==
    LET h == tag_head(cin.packet, cin.count, cin.now)
    IN
    /\ cstep = "packet"
    /\ IF h.looping
       THEN /\ cstep' = "tlv"
            /\ cout' = [result |-> h.result, data |-> h.data, sub |-> h.sub,
                        tlv_offset |-> h.tlv_offset, passes |-> 0]
       ELSE /\ cstep' = "returned"
            /\ cout' = [result |-> tag_return(h.result, h.sub, h.raised),
                        data |-> h.data, sub |-> h.sub,
                        tlv_offset |-> h.tlv_offset, passes |-> 0]
    /\ UNCHANGED <<cin, bridgeVars>>

\* One pass of the while loop, and the return when the loop is left.
tag_tlv ==
    LET it == tlv_iteration(cout.data, cout.tlv_offset, cout.result)
    IN
    /\ cstep = "tlv"
    /\ IF it.left
       THEN /\ cstep' = "returned"
            /\ cout' = [cout EXCEPT !.result = tag_return(it.result, cout.sub, it.raised)]
       ELSE /\ cstep' = "tlv"
            /\ cout' = [cout EXCEPT !.result = it.result, !.tlv_offset = it.tlv_offset,
                                    !.passes = @ + 1]
    /\ UNCHANGED <<cin, bridgeVars>>

TagNext == tag_enter \/ tag_tlv

TagSpec == TagInit /\ [][TagNext]_vars

(* ------------------------------------------------------------------ *)
(* The bridge's decoding of a response payload                         *)
(* ------------------------------------------------------------------ *)

MaxReply == 12          \* longest payload of a generated response

NoFields == [k \in {} |-> 0]

\* The dict built from the (id, level) pairs of a payload: a later pair
\* with the same id replaces an earlier one, a last odd byte is left out.
LevelPairs(p, on, off) ==
    LET n    == Len(p) \div 2
        keys == {p[2 * k - 1] : k \in 1..n}
        last(key) == CHOOSE k \in 1..n :
                        p[2 * k - 1] = key /\ \A j \in (k + 1)..n : p[2 * j - 1] # key
    IN  [key \in keys |-> IF p[2 * last(key)] # 0 THEN on ELSE off]

\* struct.unpack('>I', p[i:i+4])[0]
UnpackU32(p, i) == ((p[i + 1] * 256 + p[i + 2]) * 256 + p[i + 3]) * 256 + p[i + 4]

\* dict.get(key, str(key)) on a dict of names.
NameOf(names, key) == IF key \in DOMAIN names THEN names[key] ELSE <<"str", key>>

\* The fields _enrich_response adds to the response of (cmd, sub) with
\* payload p: the first branch of the elif chain whose test on cmd, sub
\* and len(p) holds.  Joined and formatted strings are written as the
\* sequence of their parts.
_enrich_response(cmd, sub, p) ==
    IF cmd = 1 /\ sub = 5 /\ Len(p) >= 12
    THEN [ip |-> Slice(p, 0, 4), mask |-> Slice(p, 4, 8), gateway |-> Slice(p, 8, 12)]
    ELSE IF cmd = 1 /\ sub = 6 /\ Len(p) >= 6
    THEN [mac |-> hex(Slice(p, 0, 6))]
    ELSE IF cmd = 1 /\ sub = 0 /\ Len(p) >= 6
    THEN LET name_len == Shl(p[5], 8) + p[6]
             info     == [reader_info |-> hex(Slice(p, 0, 4))]
         IN  IF Len(p) >= 6 + name_len
             THEN Put(info, "reader_name",
                      [i \in 1..name_len |-> IF p[6 + i] < 128 THEN p[6 + i] ELSE 65533])
             ELSE info
    ELSE IF cmd = 1 /\ sub = 17 /\ Len(p) >= 4
    THEN LET ts == UnpackU32(p, 0)
             t  == [seconds |-> ts, reader_time_str |-> <<"strftime", ts>>]
         IN  IF Len(p) >= 8 THEN Put(t, "microseconds", UnpackU32(p, 4)) ELSE t
    ELSE IF cmd = 1 /\ sub = 10
    THEN [inputs |-> LevelPairs(p, "HIGH", "LOW")]
    ELSE IF cmd = 1 /\ sub = 12 /\ Len(p) >= 12
    THEN [antenna_index |-> p[1], power_dbm |-> p[4], protocol |-> hex(<<p[5]>>),
          frequency |-> hex(<<p[6]>>),
          session |-> NameOf(<<"S1", "S2", "S3">> @@ (0 :> "S0"), p[8]),
          target |-> NameOf((0 :> "A") @@ (1 :> "B"), p[9]),
          q_value |-> p[10]]
    ELSE IF cmd = 1 /\ sub = 22 /\ Len(p) >= 3
    THEN [wiegand_enable |-> p[1],
          wiegand_format |-> NameOf(<<"Wiegand-34", "Wiegand-66">> @@ (0 :> "Wiegand-26"),
                                    p[2]),
          wiegand_bits |-> p[3]]
    ELSE IF cmd = 1 /\ sub = 7 /\ Len(p) >= 1
    THEN [mode |-> IF p[1] = 0 THEN "SERVER" ELSE "CLIENT"]
    ELSE IF cmd = 1 /\ sub = 23 /\ Len(p) >= 1
    THEN [cache_enabled |-> p[1] # 0]
    ELSE IF cmd = 1 /\ sub = 25 /\ Len(p) >= 1
    THEN [cache_time |-> p[1]]
    ELSE IF cmd = 1 /\ sub = 8
    THEN [relays |-> LevelPairs(p, "ON", "OFF")]
    ELSE IF cmd = 1 /\ sub = 14 /\ Len(p) >= 2
    THEN [rs485_addr |-> p[1], rs485_mode |-> p[2]]
    ELSE NoFields

\* parse_result on a (cmd, sub, payload) tuple: the four raw fields, then
\* the fields of _enrich_response.
parse_result_tuple(cmd, sub, payload) ==
    _enrich_response(cmd, sub, payload)
    @@ [cmd |-> hex(<<cmd>>), sub |-> hex(<<sub>>), payload_hex |-> hex(payload),
        payload_len |-> Len(payload)]

\* The sub-commands a GET of the client sends (the reader answers with the
\* sub-command of the request), and those the bridge has a branch for.
ClientGetSubs == {0, 3, 5, 6, 8, 10, 12, 14, 17, 22, 24, 26, 36, 46}
EnrichedSubs == {0, 5, 6, 7, 8, 10, 12, 14, 17, 22, 23, 25}

\* Response payloads: counting bytes, zeros, and ones between 0xFF.
ReplyPayloads ==
    UNION { { [i \in 1..n |-> i], [i \in 1..n |-> 0],
              [i \in 1..n |-> IF i % 4 = 1 THEN 1 ELSE 255] } : n \in 0..MaxReply }

EnrichInit ==
    /\ InitWith(HttpTasks, WsTasks, Streamers)
    /\ log_ring = <<>>
    /\ cstep = "reply"
    /\ cin \in {[cmd |-> c, sub |-> s, payload |-> p] :
                    c \in {CMD_CONFIG, CMD_RF}, s \in ClientGetSubs \cup EnrichedSubs,
                    p \in ReplyPayloads}
    /\ cout = <<>>

\* parse_result(result, label) on the tuple send_command returned.
enrich_reply ==
    /\ cstep = "reply"
    /\ cstep' = "response"
    /\ cout' = parse_result_tuple(cin.cmd, cin.sub, cin.payload)
    /\ UNCHANGED <<cin, bridgeVars>>

EnrichNext == enrich_reply

EnrichSpec == EnrichInit /\ [][EnrichNext]_vars

(* ------------------------------------------------------------------ *)
(* CL7206C2Client.set_antenna_power: read, change one byte, write back  *)
(* ------------------------------------------------------------------ *)

SUB_SET_ANTENNA == 11   \* 0x0B
SUB_GET_ANTENNA == 12   \* 0x0C

\* The antenna block of an RF port as the reader keeps it.
AntennaBlock(port) == <<port, 0, 0, 20, 2, 16, 0, 2, 1, 1, 3, 1, 0, 0>>

\* What the reader answers to the GET: its block, the first twelve or
\* eleven bytes of it, an empty payload, or nothing.
AnswerKinds == {"block", "twelve", "eleven", "empty", "none"}
Answer(kind, block) ==
    CASE kind = "block" -> build_packet(CMD_CONFIG, SUB_GET_ANTENNA, block)
      [] kind = "twelve" -> build_packet(CMD_CONFIG, SUB_GET_ANTENNA, SubSeq(block, 1, 12))
      [] kind = "eleven" -> build_packet(CMD_CONFIG, SUB_GET_ANTENNA, SubSeq(block, 1, 11))
      [] kind = "empty" -> build_packet(CMD_CONFIG, SUB_GET_ANTENNA, <<>>)
      [] OTHER -> <<>>

\* Bytes that are in the socket's receive buffer when the call begins:
\* nothing, a tag notification of a running inventory, the late answer
\* to an earlier GET of the network settings, a late one-byte status.
Unread ==
    { <<>>,
      build_packet(CMD_TAG, 0, <<48, 0>> \o EpcOf(<<48, 0>>) \o <<1, 0, 0, 2, 18, 52>>),
      build_packet(CMD_CONFIG, SUB_NETWORK, <<192, 168, 1, 116, 255, 255, 255, 0,
                                              192, 168, 1, 1>>),
      build_packet(CMD_CONFIG, SUB_SET_ANTENNA, <<0>>) }

PowerPorts == 0..MaxPort
PowerLevels == {0, 30, 255, 256, 289}

\* config = bytearray(payload); config[3] = power_dbm & 0xFF
power_block(payload, power_dbm) == [payload EXCEPT ![4] = BitAnd(power_dbm, 255)]

PowerInit ==
    /\ InitWith(HttpTasks, WsTasks, Streamers)
    /\ log_ring = <<>>
    /\ cstep = "call"
    /\ cin \in {[port |-> n, power_dbm |-> p, answer |-> a, unread |-> u] :
                    n \in PowerPorts, p \in PowerLevels, a \in AnswerKinds, u \in Unread}
    /\ cout = [config |-> [n \in PowerPorts |-> AntennaBlock(n)], inbox |-> cin.unread,
               sent |-> <<>>, result |-> NoFrame]

\* The first send_command up to its recv: the GET goes out and the reader
\* puts its answer behind what is already in the receive buffer.
power_get ==
    /\ cstep = "call"
    /\ cstep' = "get_sent"
    /\ cout' = [cout EXCEPT
                  !.sent = Append(@, build_packet(CMD_CONFIG, SUB_GET_ANTENNA, <<cin.port>>)),
                  !.inbox = @ \o Answer(cin.answer, cout.config[cin.port])]
    /\ UNCHANGED <<cin, bridgeVars>>

\* The rest of the call: recv and parse_packet of the first
\* send_command, the two early returns, and the SET with the changed
\* block, which the reader stores for the port named in its first byte.
power_set ==
    LET result  == IF cout.inbox = <<>> THEN NoFrame ELSE parse_packet(cout.inbox)
        payload == result[3]
        config  == power_block(payload, cin.power_dbm)
    IN
    /\ cstep = "get_sent"
    /\ IF result = NoFrame \/ Len(payload) < 12
       THEN /\ cstep' = "returned"
            /\ cout' = [cout EXCEPT !.inbox = <<>>, !.result = NoFrame]
       ELSE /\ cstep' = "set_sent"
            /\ cout' = [cout EXCEPT
                          !.inbox = <<>>,
                          !.sent = Append(@, build_packet(CMD_CONFIG, SUB_SET_ANTENNA, config)),
                          !.config = IF config[1] \in PowerPorts
                                     THEN [@ EXCEPT ![config[1]] = config] ELSE @]
    /\ UNCHANGED <<cin, bridgeVars>>

PowerNext == power_get \/ power_set

PowerSpec == PowerInit /\ [][PowerNext]_vars

(* ------------------------------------------------------------------ *)
(* The codec on its own: build, damage or prefix, parse                *)
(* ------------------------------------------------------------------ *)

MAX_DATA_LEN == 1023    \* 0x3FF, the longest payload the reader accepts

CodecBytes == {0, 1, CMD_TAG, HEADER, 255}

ShortPayloads == UNION {[1..n -> {0, HEADER, 255}] : n \in 0..MaxPayload}

\* Payloads that need the high byte of the length field.
LongPayloads ==
    { [i \in 1..256 |-> HEADER], [i \in 1..MAX_DATA_LEN |-> i % 256] }

CodecInputs ==
    {[cmd |-> c, sub |-> b, data |-> d] :
        c \in CodecBytes, b \in CodecBytes, d \in ShortPayloads}
    \cup {[cmd |-> c, sub |-> 0, data |-> d] : c \in {CMD_CONFIG, 255}, d \in LongPayloads}
    \cup {[cmd |-> CMD_CONFIG, sub |-> b, data |-> <<>>] : b \in GetSubs}
    \cup {[cmd |-> CMD_RF, sub |-> b, data |-> <<>>] : b \in {SUB_START, SUB_STOP}}

\* Bytes in front of a frame: noise without and with the sync byte, a
\* candidate header that declares 0x400 bytes, and that candidate with the
\* 0x400 bytes and two more behind it.
Garbage ==
    { <<1>>, <<0, 1, 2, 3, 4, 5, 6, 7>>, <<HEADER>>, <<1, HEADER, 2>>,
      <<HEADER, CMD_TAG, 0, 4, 0>>,
      <<HEADER, CMD_TAG, 0, 4, 0>> \o [i \in 1..(MAX_DATA_LEN + 3) |-> 0] }

\* The candidates of Garbage whose length field is 0x400 or more.
Oversized(g) == Len(g) >= 5 /\ g[1] = HEADER /\ Shl(g[4], 8) + g[5] > MAX_DATA_LEN

CodecInit ==
    /\ InitWith(HttpTasks, WsTasks, Streamers)
    /\ cstep = "input" /\ cin \in CodecInputs /\ cout = <<>>
    /\ log_ring = <<>>

\* build_packet(cmd, sub, data)
codec_build ==
    /\ cstep = "input"
    /\ cstep' = "built"
    /\ cout' = [data |-> build_packet(cin.cmd, cin.sub, cin.data),
                garbage |-> <<>>, damaged |-> FALSE]
    /\ UNCHANGED <<cin, bridgeVars>>

\* The line changes one of the two CRC bytes of the frame.
codec_damage(k) ==
    /\ cstep = "built"
    /\ cstep' = "changed"
    /\ cout' = [cout EXCEPT !.data[Len(cout.data) - k] = BitXor(@, 1), !.damaged = TRUE]
    /\ UNCHANGED <<cin, bridgeVars>>

\* The frame arrives behind other bytes.
codec_prefix(g) ==
    /\ cstep = "built"
    /\ cstep' = "changed"
    /\ cout' = [cout EXCEPT !.data = g \o @, !.garbage = g]
    /\ UNCHANGED <<cin, bridgeVars>>

\* The receive path on the bytes: parse_packet, verify_packet and the scan
\* of the inventory loop.
codec_parse ==
    /\ cstep \in {"built", "changed"}
    /\ cstep' = "parsed"
    /\ cout' = [data |-> cout.data, garbage |-> cout.garbage, damaged |-> cout.damaged,
                frame |-> parse_packet(cout.data),
                verified |-> verify_packet(cout.data),
                scan |-> ScanNext(cout.data, 0)]
    /\ UNCHANGED <<cin, bridgeVars>>

\* Polynomials handed to the table generators: the reader's 0x8005 and
\* 0x1021 (CCITT).
CrcPolys == {CrcPoly, 4129}

\* What the two generators return for each polynomial of CrcPolys.
ClientTables == [p \in CrcPolys |-> _generate_crc16_table(p)]
VerifiedTables == [p \in CrcPolys |-> generate_crc16_table(p)]

\* Both table generators run on the same polynomial.
crc_tables(poly) ==
    /\ cstep = "input"
    /\ cstep' = "tables"
    /\ cout' = [poly |-> poly,
                client |-> ClientTables[poly],
                verified |-> VerifiedTables[poly]]
    /\ UNCHANGED <<cin, bridgeVars>>

Rs485Addrs == {0, 1, 255}

\* transfer_to_pc on an RS-485 connection: Add_Rs485_Addr(data, len, addr).
rs485_wrap(addr) ==
    /\ cstep = "built"
    /\ cstep' = "wrapped"
    /\ cout' = [data |-> cout.data, addr |-> addr,
                wrapped |-> Add_Rs485_Addr(cout.data, addr)]
    /\ UNCHANGED <<cin, bridgeVars>>

\* protocol_data_process on the RS-485 port of a reader whose address is
\* local_addr: Rs485_data_process.
rs485_strip(local_addr) ==
    /\ cstep = "wrapped"
    /\ cstep' = "stripped"
    /\ cout' = [data |-> cout.data, addr |-> cout.addr, wrapped |-> cout.wrapped,
                local_addr |-> local_addr,
                result |-> Rs485_data_process(cout.wrapped, local_addr)]
    /\ UNCHANGED <<cin, bridgeVars>>

CodecNext ==
    \/ codec_build
    \/ \E k \in {0, 1} : codec_damage(k)
    \/ \E g \in Garbage : codec_prefix(g)
    \/ codec_parse
    \/ \E a \in Rs485Addrs : rs485_wrap(a)
    \/ \E b \in Rs485Addrs : rs485_strip(b)
    \/ \E p \in CrcPolys : crc_tables(p)

CodecSpec == CodecInit /\ [][CodecNext]_vars

\* The event loop runs every task that is ready: a sleep and a send to the
\* subscriber end, a recv returns at the latest on its timeout, a handler
\* returns, a receive_text on a connection that is gone raises.  What
\* clients and the reader do, and when, is left open.
StreamerStep(s) ==
    /\ \/ run_inventory_start(s)
       \/ run_inventory_failed(s)
       \/ run_inventory_recv(s)
       \/ run_inventory_sent(s)
       \/ run_inventory_loop(s)
    /\ UNCHANGED <<codecVars, log_ring>>

HandlerStep(h) ==
    /\ get_response(h) \/ factory_reset_close(h) \/ HttpReturn(h)
    /\ UNCHANGED <<codecVars, log_ring>>

WsStep(w) ==
    /\ inventory_ws_spawn(w) \/ inventory_ws_finally(w)
    /\ UNCHANGED <<codecVars, log_ring>>

FairSpec ==
    /\ Spec
    /\ \A s \in Streamers : WF_vars(StreamerStep(s))
    /\ \A h \in HttpTasks : WF_vars(HandlerStep(h))
    /\ \A w \in WsTasks : WF_vars(WsStep(w))

(* ------------------------------------------------------------------ *)
(* Properties                                                          *)
(* ------------------------------------------------------------------ *)

\* The streamer is inside its while loop (the start frame was written).
Streaming(s) == spc[s] \in {"recv", "sent", "loop"}

OpenClients == {c \in ClientIds : sock[c].st \in {"tcp", "udp"}}

StopWritten(ops) ==
    \E i \in DOMAIN ops : ops[i].op = "send" /\ ops[i].arg = <<CMD_RF, SUB_STOP>>

\* C1: the frame send_command returns as the response carries the (cmd, sub)
\* of the request: a GET answered with 200 reports the request's own pair.
C1_ResponseMatchesRequest ==
    \A h \in HttpTasks :
        (hpc[h] = "done" /\ hreq[h].ep = "get" /\ hresp[h].code = 200)
            => (hresp[h].cmd = CMD_CONFIG /\ hresp[h].sub = hreq[h].sub)

\* C2: between a handler's request write and the read that completes the
\* request, every call on the reader socket is the handler's own.
C2_RequestsSerialized ==
    [][\A h \in HttpTasks :
          hpc[h] = "recv" => \A i \in DOMAIN sockOps' : sockOps'[i].task = h]_vars

\* A GET is between its write and its read while an inventory is running.
C2_Witness ==
    \E h \in HttpTasks, s \in Streamers :
        /\ hpc[h] = "recv" /\ hreq[h].ep = "get"
        /\ spc[s] \in {"sent", "loop"} /\ inventory_active

\* C3: every send, recv, close and settimeout on the reader socket is made
\* by the task that holds reader_lock at that moment.
C3_SocketCallsUnderLock ==
    \A i \in DOMAIN sockOps :
        sockOps[i].op \in {"send", "recv", "close", "settimeout"}
            => sockOps[i].held = sockOps[i].task

\* The inventory task has just read from the socket.
C3_Witness ==
    \E i \in DOMAIN sockOps : sockOps[i].op = "recv" /\ sockOps[i].task \in Streamers

\* C4: reader_lock is free whenever the event loop is between tasks, only
\* the task that is executing holds it, and no task waits for it.
C4_LockReleased ==
    /\ running = NoTask => reader_lock = NoTask
    /\ reader_lock # NoTask => reader_lock = running
    /\ \A h \in HttpTasks : hpc[h] # "blocked"
    /\ \A w \in WsTasks : wpc[w] # "blocked"
    /\ \A s \in Streamers : spc[s] # "blocked"

\* A recv under the lock has just raised and the lock is free again.
C4_Witness ==
    /\ reader_lock = NoTask
    /\ \E i \in DOMAIN sockOps : sockOps[i].op = "recv" /\ sockOps[i].res = "error"

\* C5: at most one client has an open socket and it is `reader`; after
\* disconnect, reboot and factoryreset no socket is open and reader is None.
C5_AtMostOneSession ==
    /\ Cardinality(OpenClients) <= 1
    /\ OpenClients \subseteq {reader}
    /\ \A h \in HttpTasks :
          (hpc[h] = "done" /\ hreq[h].ep \in {"disconnect", "reboot", "factoryreset"})
              => (reader = 0 /\ OpenClients = {})

\* A connect has just replaced an open session: close, then connect.
C5_Witness ==
    \E h \in HttpTasks :
        /\ hpc[h] = "done" /\ hreq[h].ep = "connect" /\ reader # 0
        /\ Len(sockOps) = 2 /\ sockOps[1].op = "close" /\ sockOps[2].op = "connect"

\* C6: a TCP connect that is refused or times out ends /api/connect with
\* 502 and leaves reader None.
C6_FailedConnectIs502 ==
    \A h \in HttpTasks : \A i \in DOMAIN sockOps :
        (hpc[h] = "done" /\ sockOps[i].op = "connect"
            /\ sockOps[i].res \in {"refused", "timeout"})
            => (hresp[h].code = 502 /\ reader = 0)

\* C7: with a reader, reboot answers rebooting and factoryreset answers
\* factory_reset whatever the send and the recv did; then no socket is
\* open, reader is None and reader_lock is free.
C7_RebootAndResetAcknowledge ==
    [][\A h \in HttpTasks :
          (/\ hpc[h] # "done" /\ hpc'[h] = "done"
           /\ hreq'[h].ep \in {"reboot", "factoryreset"}
           /\ reader # 0)
          => /\ hresp'[h].code = 200
             /\ hresp'[h].status =
                    (IF hreq'[h].ep = "reboot" THEN "rebooting" ELSE "factory_reset")
             /\ reader' = 0
             /\ \A c \in ClientIds : sock'[c].st = "closed"
             /\ reader_lock' = NoTask]_vars

\* A reboot or factory reset has ended although its send raised or its
\* recv met the closed connection.
C7_Witness ==
    \E h \in HttpTasks :
        /\ hpc[h] = "done" /\ hreq[h].ep \in {"reboot", "factoryreset"}
        /\ hresp[h].code = 200
        /\ \E i \in DOMAIN sockOps : sockOps[i].res \in {"raised", "eof", "error"}

\* C8: after inventory_stopped was sent on a WebSocket at most one further
\* tag event is sent on it.
C8_AtMostOneTagAfterStop ==
    \A w \in WsTasks :
        (wsLog[w] # <<>> /\ wsLog[w][1].type = "inventory_stopped")
            => Len(wsLog[w]) - 1 <= 1

\* C9: a step that cancels a running inventory while the reader socket is
\* open writes the stop frame.
C9_CancelWritesStop ==
    [][(/\ inventory_active /\ ~inventory_active'
        /\ IsOpen(reader)
        /\ \E s \in Streamers : Streaming(s))
       => StopWritten(sockOps')]_vars

\* C10: once the connection of a running streamer is closed or reset, the
\* streamer exits.
C10_LostConnectionEndsStreamer ==
    \A s \in Streamers :
        (Streaming(s) /\ reader # 0 /\ net.peer # "up") ~> (spc[s] = "off")

\* C11: the end of a WebSocket handler that did not start the running
\* inventory leaves inventory_active as it is.
C11_OtherDisconnectKeepsInventory ==
    [][\A w \in DOMAIN wpc :
          (/\ wpc[w] = "receive" /\ wpc'[w] = "closed"
           /\ inventory_active
           /\ \A s \in DOMAIN sws : sws[s] # w
           /\ \E s \in DOMAIN spc : Streaming(s))
          => inventory_active']_vars

\* C12: at most one _run_inventory task exists at any time.
C12_AtMostOneStreamer ==
    Cardinality({s \in DOMAIN spc : spc[s] # "off"}) <= 1

TagEvents(log) == SelectSeq(log, LAMBDA e : e.type = "tag")

\* Every chunk the streamer read begins and ends at a frame boundary.
WholeReads ==
    \A r \in cout.reads :
        r[1] \in FrameEnds(cin.frames) /\ r[2] \in FrameEnds(cin.frames)

\* The frames that lie in the chunks the streamer read, in stream order.
RECURSIVE FramesIn(_, _, _)
FramesIn(frames, from, reads) ==
    IF frames = <<>> THEN <<>>
    ELSE LET to == from + Len(FramePacket[frames[1]]) IN
         (IF \E r \in reads : r[1] <= from /\ to <= r[2] THEN <<frames[1]>> ELSE <<>>)
             \o FramesIn(Tail(frames), to, reads)

\* One event per tag frame, numbered from 1 in the order of the frames.
ExpectedEvents(frames) ==
    LET tags == SelectSeq(frames, LAMBDA f : f.cmd = CMD_TAG)
    IN  [i \in 1..Len(tags) |->
            [type |-> "tag", count |-> i, raw_hex |-> FramePacket[tags[i]]]]

\* C14: when every chunk read is made of whole frames, the tag events sent
\* in one run are those of the (0x12, *) frames read, one each, in reception
\* order and numbered 1, 2, 3, ...; other frames give no event.
C14_TagEventsInOrder ==
    \A s \in DOMAIN spc :
        (cstep = "stream" /\ Streaming(s) /\ WholeReads)
            => LET evs == TagEvents(wsLog[sws[s]])
                   exp == ExpectedEvents(FramesIn(cin.frames, 0, cout.reads))
               IN  /\ Len(evs) <= Len(exp)
                   /\ evs = SubSeq(exp, 1, Len(evs))
                   /\ spc[s] \in {"recv", "loop"} => evs = exp

\* A run has read a tag, another frame and a second tag, two of them in one
\* chunk, and has sent both events.
C14_Witness ==
    \E s \in DOMAIN spc :
        /\ cstep = "stream" /\ spc[s] = "loop" /\ WholeReads
        /\ Len(cin.frames) = 3 /\ cin.frames[2].cmd = CMD_CONFIG
        /\ cout.sent = Len(cin.wire) /\ Cardinality(cout.reads) = 2
        /\ Len(TagEvents(wsLog[sws[s]])) = 2

\* The run has read every byte the reader sent.
AllRead ==
    /\ cout.sent = Len(cin.wire) /\ net.inbox = <<>>
    /\ \A k \in 1..Len(cin.wire) : \E r \in cout.reads : r[1] < k /\ k <= r[2]

\* C19: a frame that reaches the inventory loop in two successive reads is
\* yielded once all the same: when every byte sent has been read, however
\* the reads cut the stream, each tag frame has its one event.
C19_SplitFrameYieldedOnce ==
    \A s \in DOMAIN spc :
        (cstep = "stream" /\ spc[s] \in {"recv", "loop"} /\ AllRead)
            => TagEvents(wsLog[sws[s]]) = ExpectedEvents(cin.frames)

\* C15: parse_packet(build_packet(cmd, sub, payload)) is (cmd, sub, payload),
\* the packet has 7 + len(payload) bytes and verify_packet accepts it.
C15_BuildParseRoundTrip ==
    (cstep = "parsed" /\ cout.garbage = <<>> /\ ~cout.damaged)
        => /\ cout.frame = <<cin.cmd, cin.sub, cin.data>>
           /\ Len(cout.data) = 7 + Len(cin.data)
           /\ cout.verified

\* A frame with the longest payload and the sync byte as cmd was built
\* and parsed.
C15_Witness ==
    /\ cstep = "parsed" /\ cout.garbage = <<>> /\ ~cout.damaged
    /\ Len(cin.data) = MAX_DATA_LEN /\ cin.cmd = 255
    /\ cout.frame[3] = cin.data

\* C16: a candidate whose CRC bytes differ from the CRC-16 of cmd, sub,
\* length and payload is no frame for parse_packet and no tag event for the
\* inventory loop.
C16_BadCrcYieldsNoFrame ==
    (cstep = "parsed" /\ cout.damaged)
        => (cout.frame = NoFrame /\ ~cout.scan.tag)

\* C17: a candidate that declares a length of 0x400 or more is skipped and
\* the frame behind it is the one parse_packet returns.
C17_OversizedSkipped ==
    (cstep = "parsed" /\ Oversized(cout.garbage))
        => cout.frame = <<cin.cmd, cin.sub, cin.data>>

\* C18: parse_packet(garbage || valid_frame) is the (cmd, sub, payload) of
\* valid_frame, whatever bytes the garbage is made of.
C18_GarbageThenFrame ==
    (cstep = "parsed" /\ cout.garbage # <<>>)
        => cout.frame = <<cin.cmd, cin.sub, cin.data>>

\* The get-MAC request of the client: build_packet(0x01, 0x06, b'').
GetMacInput == [cmd |-> CMD_CONFIG, sub |-> SUB_MAC, data |-> <<>>]

\* C21 as stated: build_packet(0x01, 0x06, b'') is AA 01 06 00 00 41 30.
C21_GetMacPacket_4130 ==
    (cstep = "built" /\ cin = GetMacInput)
        => cout.data = <<170, 1, 6, 0, 0, 65, 48>>

\* C21: build_packet(0x01, 0x06, b'') is exactly the seven bytes
\* AA 01 06 00 00 94 7B.
C21_GetMacPacket ==
    (cstep = "built" /\ cin = GetMacInput)
        => cout.data = <<170, 1, 6, 0, 0, 148, 123>>

C21_Witness == cstep = "built" /\ cin = GetMacInput /\ Len(cout.data) = 7

\* C22: the table generated for polynomial 0x8005 starts with 0x0000,
\* 0x8005, 0x800F, 0x000A, 0x801B, 0x001E, 0x0014, 0x8011, and the
\* generator of cl7206c2_client.py and the generator of crc16_verified.py
\* give the same 256 entries.
C22_CrcTable ==
    cstep = "tables"
        => /\ cout.poly = CrcPoly =>
                [i \in 0..7 |-> cout.client[i]]
                    = [i \in 0..7 |-> <<0, 32773, 32783, 10, 32795, 30, 20, 32785>>[i + 1]]
           /\ DOMAIN cout.client = 0..255
           /\ \A i \in 0..255 : cout.client[i] = cout.verified[i]

C22_Witness == cstep = "tables" /\ cout.poly = CrcPoly /\ cout.client[255] = cout.verified[255]

\* C20 as stated: for every cmd byte, stripping the wrapped frame with its
\* own address gives the frame back byte for byte, and with another
\* address drops it.
C20_Rs485RoundTripAnyCmd ==
    cstep = "stripped"
        => IF cout.local_addr = cout.addr
           THEN cout.result.rc = 0 /\ cout.result.packet = cout.data
           ELSE cout.result.rc = -3

\* C20: for every frame whose cmd byte has bit 5 (0x20) clear, stripping
\* the wrapped frame with its own address gives the frame back byte for
\* byte; for every cmd byte, the wrapped frame is one byte longer, carries
\* the flag and the address, and stripping with another address drops it.
C20_Rs485RoundTrip ==
    /\ cstep \in {"wrapped", "stripped"}
          => /\ Len(cout.wrapped) = Len(cout.data) + 1
             /\ cout.wrapped[2] = BitOr(cin.cmd, RS485_FLAG)
             /\ cout.wrapped[4] = cout.addr
    /\ cstep = "stripped"
          => IF cout.local_addr # cout.addr THEN cout.result.rc = -3
             ELSE /\ cout.result.rc = 0
                  /\ BitAnd(cin.cmd, RS485_FLAG) = 0 => cout.result.packet = cout.data
                  /\ cout.result.packet[2] = BitAnd(cin.cmd, 223)

\* A frame with payload, wrapped for address 255, was stripped by the
\* reader with that address and came back as it was.
C20_Witness ==
    /\ cstep = "stripped" /\ cout.addr = 255 /\ cout.local_addr = 255
    /\ cin.cmd = CMD_TAG /\ Len(cin.data) = MaxPayload
    /\ cout.result.packet = cout.data

StartWritten(ops) ==
    \E i \in DOMAIN ops :
        ops[i].op = "send" /\ ops[i].res = "ok" /\ ops[i].arg = <<CMD_RF, SUB_START>>

\* C13: the step that sends inventory_started to a WebSocket client has
\* written the start frame (0x02, 0x10) to the reader.
C13_StartedAfterStartWritten ==
    [][\A w \in DOMAIN wpc :
          (/\ wpc[w] = "receive" /\ wpc'[w] = "starting"
           /\ wsLog'[w] = <<Status("inventory_started")>>)
          => StartWritten(sockOps')]_vars

\* The endpoints that begin with require_reader().
ReaderBacked == {"get", "reboot", "factoryreset"}

\* C23: a reader-backed endpoint invoked while reader is None ends at once
\* with HTTP 400; the step takes no lock, makes no socket call and leaves
\* reader, the sockets, inventory_active and the WebSocket client list as
\* they were.
C23_NotConnectedIs400 ==
    [][\A h \in DOMAIN hpc :
          (/\ reader = 0 /\ hpc[h] = "idle" /\ hpc'[h] # "idle"
           /\ hreq'[h].ep \in ReaderBacked)
          => /\ hpc'[h] = "done" /\ hresp'[h].code = 400
             /\ sockOps' = <<>>
             /\ reader_lock' = reader_lock
             /\ UNCHANGED <<reader, sock, net, inventory_active, inventory_ws_clients>>]_vars

C23_Witness ==
    \E h \in DOMAIN hpc :
        /\ hpc[h] = "done" /\ hreq[h].ep \in ReaderBacked /\ hresp[h].code = 400
        /\ reader = 0 /\ sockOps = <<>>

\* C24: a reader-backed GET or POST invoked while connected ends with a
\* decoded success (200, carrying the frame received), with 504 or with
\* 502, never with an exception nobody mapped.
C24_ConnectedRequestIsMapped ==
    \A h \in DOMAIN hpc :
        (hpc[h] = "done" /\ hreq[h].ep = "get" /\ hresp[h].code # 400)
            => \/ hresp[h].code = 200 /\ hresp[h].status = "ok"
               \/ hresp[h].code \in {502, 504}

\* A send or a recv of the step raised.
TransportError(ops) ==
    \E i \in DOMAIN ops :
        \/ ops[i].op = "send" /\ ops[i].res = "raised"
        \/ ops[i].op = "recv" /\ ops[i].res = "error"

\* C25: a request during which a send or a recv failed leaves the session
\* invalid: reader is None and no client socket is open.
C25_TransportErrorEndsSession ==
    [][\A h \in DOMAIN hpc :
          (hpc[h] # "done" /\ hpc'[h] = "done" /\ TransportError(sockOps'))
          => (reader' = 0 /\ \A c \in ClientIds : sock'[c].st = "closed")]_vars

\* C26: GET /api/tags for which the reader sent k >= 1 record frames that
\* get_tags received ends with a success carrying those k records in the
\* order received: get_tags hands them to the handler.
C26_TagsReturned ==
    \A h \in DOMAIN hpc :
        (/\ cstep = "tags" /\ hpc[h] = "done" /\ hreq[h].ep = "tags"
         /\ hresp[h].code # 500 /\ Len(cout.got) >= 1)
        => /\ hresp[h].code = 200
           /\ cout.returned = cout.got
           /\ cout.got = [i \in 1..Len(cout.got) |->
                             <<CMD_CONFIG, SUB_TAGS, cin.records[i]>>]

LogCategories == {"SYS", "CMD", "PROTO", "TAG"}

\* The entries of the ring are consecutive appends, oldest first.
InAppendOrder(ring) == \A i \in 1..(Len(ring) - 1) : ring[i + 1].seq = ring[i].seq + 1

\* ring2 is ring1 after k appends: what ring2 holds besides the k new
\* entries are the newest entries of ring1, unchanged and in place.
AppendedTo(ring1, ring2) ==
    LET k    == Serial(ring2) - Serial(ring1)
        kept == Len(ring2) - k
        gone == Len(ring1) - kept
    IN  /\ k >= 0 /\ kept >= 0 /\ gone >= 0
        /\ Len(ring2) = IF Len(ring1) + k > LOG_MAXLEN THEN LOG_MAXLEN ELSE Len(ring1) + k
        /\ \A j \in 1..kept : ring2[j] = ring1[j + gone]

\* C27: the log ring never holds more than 2000 entries, its entries are
\* in append order, an append to a full ring discards only the oldest
\* entries, and every category is SYS, CMD, PROTO or TAG.
C27_LogRingBounded ==
    /\ [](/\ Len(log_ring) <= LOG_MAXLEN
          /\ InAppendOrder(log_ring)
          /\ \A i \in 1..Len(log_ring) : log_ring[i].cat \in LogCategories)
    /\ [][AppendedTo(log_ring, log_ring')]_vars

C27_Witness ==
    /\ cstep = "log" /\ Len(log_ring) = LOG_MAXLEN
    /\ log_ring[1].seq > 1
    /\ \E i \in 1..Len(log_ring) : log_ring[i].cat = "PROTO"

\* C28: a ConfigPram image has 1072 bytes in every state: a file of
\* another length is rejected, the setters that return leave 1072 bytes
\* and save writes 1072 bytes.
C28_ImageIs1072Bytes ==
    /\ cstep = "rejected" => Len(cin.file) # SIZE
    /\ cstep = "config" => Len(cout.data) = SIZE
    /\ cstep = "saved" => Len(cout.file) = SIZE

\* The bytes of the image a setter call may change, as 0-based offsets.
Field(last) ==
    CASE last.op = "set_ip" -> 1..4
      [] last.op = "set_mask" -> 5..8
      [] last.op = "set_gateway" -> 9..12
      [] last.op = "set_antenna_power" ->
            {ANT_BLOCK_START + last.args[1] * ANT_BLOCK_SIZE + 3}
      [] OTHER -> {}

\* The calls C29 speaks of: an address of four octets, an antenna 0..3.
InScope(last) ==
    /\ ~last.raised
    /\ last.op \in {"set_ip", "set_mask", "set_gateway"} => Len(last.args) = 4
    /\ last.op = "set_antenna_power" => last.args[1] \in 0..3

\* C29: a setter call changes only the bytes of its own field (set_ip
\* [1,5), set_mask [5,9), set_gateway [9,13), set_antenna_power the byte
\* at 0x1C + n*0x100 + 3), and an image saved without edits is the file
\* that was loaded.
C29_EditsAreLocal ==
    [][/\ (cstep = "config" /\ cstep' = "config" /\ InScope(cout'.last))
          => /\ Len(cout'.data) = Len(cout.data)
             /\ \A i \in 1..Len(cout.data) :
                   (i - 1) \notin Field(cout'.last) => cout'.data[i] = cout.data[i]
       /\ (cstep = "config" /\ cstep' = "saved" /\ cout.edits = 0)
          => cout'.file = cin.file]_vars

C29_Witness ==
    /\ cstep = "saved" /\ cout.edits = MaxEdits
    /\ cout.last.op = "set_antenna_power" /\ InScope(cout.last)
    /\ cout.last.args = <<3, 30>> /\ cout.data[ANT_BLOCK_START + 3 * ANT_BLOCK_SIZE + 4] = 30
    /\ cout.data # cin.file

\* The offsets of the MAC, [0x0D, 0x13).
MacBytes == MAC_OFFSET..(MAC_OFFSET + MAC_LEN - 1)

C31_AntennaFormulaAndRange ==
    cstep \in {"tlv", "returned"} /\ "antenna" \in DOMAIN cout.result
        => /\ {"ant_num", "sub_ant"} \subseteq DOMAIN cout.result
           /\ cout.result["antenna"]
                  = cout.result["ant_num"] * 2 + cout.result["sub_ant"] + 1
           /\ cout.result["antenna"] \in 1..8

\* The payload of a parsed packet, and the payloads made of a PC, the EPC
\* bytes that PC declares, TLV 01 00 00 and TLV 02 12 as the last bytes.
PayloadOf(packet) == Slice(packet, 5, Len(packet) - 2)
AntennaThenRssi(pc) == pc \o EpcOf(pc) \o <<1, 0, 0>> \o <<2, 18>>

\* C32: a notification whose payload is PC, EPC of the declared length,
\* TLV 01 00 00 and TLV 02 12 as the last bytes yields that EPC,
\* ant_num 0, sub_ant 0, antenna 1 and rssi 0x12.
C32_AntennaThenRssiParsed ==
    \A pc \in PcWords :
        cstep = "returned" /\ EpcOf(pc) # <<>>
        /\ PayloadOf(cin.packet) = AntennaThenRssi(pc)
            => /\ {"epc", "ant_num", "sub_ant", "antenna", "rssi"}
                      \subseteq DOMAIN cout.result
               /\ cout.result["epc"] = hex(EpcOf(pc))
               /\ cout.result["ant_num"] = 0 /\ cout.result["sub_ant"] = 0
               /\ cout.result["antenna"] = 1 /\ cout.result["rssi"] = 18

\* The record in hand has the four fields every record starts with.
HasBaseFields ==
    /\ {"type", "count", "timestamp", "raw_hex"} \subseteq DOMAIN cout.result
    /\ cout.result["type"] = "tag" /\ cout.result["count"] = cin.count
    /\ cout.result["timestamp"] = cin.now
    /\ cout.result["raw_hex"] = hex(cin.packet)

\* C36: for every byte string the parser comes to its end, after no more
\* loop passes than half the payload's length, and returns a record with
\* type, count, timestamp and raw_hex; every pass of the TLV
\* loop moves the offset forward by two or more or leaves the loop and
\* drops no field parsed so far, no read of the loop is behind the end
\* of the payload, and a payload that stops inside a TLV gives the record
\* parsed up to there.
C36_ParserTotal ==
    /\ [](cstep \in {"tlv", "returned"} => HasBaseFields)
    /\ [](cstep = "returned" /\ Len(cin.packet) >= 3
              => /\ "parse_error" \notin DOMAIN cout.result
                 /\ "sub_cmd" \in DOMAIN cout.result)
    /\ [][cstep = "tlv"
              => /\ \/ cout'.tlv_offset >= cout.tlv_offset + 2
                    \/ cstep' = "returned"
                 /\ DOMAIN cout.result \subseteq DOMAIN cout'.result]_vars
    /\ [](cstep \in {"tlv", "returned"} => 2 * cout.passes <= Len(cout.data))

\* A payload that stops inside a TLV behind a whole one.
C36_Witness ==
    /\ cstep = "returned" /\ cout.passes = 1
    /\ cout.tlv_offset < Len(cout.data)
    /\ cout.data[cout.tlv_offset + 1] \in {1, 6}
    /\ "antenna" \in DOMAIN cout.result

\* The field names of the six payload schemas as the bridge writes them
\* (the relay and server/client schemas have no field names of their own
\* in the bridge), and every field name of the decoder.
WiegandFields == {"wiegand_enable", "wiegand_format", "wiegand_bits"}
Rs485Fields == {"rs485_addr", "rs485_mode"}
RawFields == {"cmd", "sub", "payload_hex", "payload_len"}
DecodedFields == DOMAIN cout \ RawFields

\* C33: each GET response is decoded with the schema of its own pair:
\* (1, 0x0E) as Wiegand enable, format, bits; (1, 0x16) as RS-485 address
\* and mode; (1, 0x18) as the tag-cache switch; (1, 0x1A) as the 16-bit
\* tag-cache time; (1, 0x24) and (1, 0x08) with no field of another pair.
C33_DecodedWithOwnSchema ==
    LET p == cin.payload
    IN  cstep = "response" /\ cin.cmd = CMD_CONFIG =>
            /\ cin.sub = 14 /\ Len(p) >= 3 =>
                   /\ DecodedFields = WiegandFields
                   /\ cout["wiegand_enable"] = p[1] /\ cout["wiegand_bits"] = p[3]
            /\ cin.sub = 22 /\ Len(p) >= 2 =>
                   /\ DecodedFields = Rs485Fields
                   /\ cout["rs485_addr"] = p[1] /\ cout["rs485_mode"] = p[2]
            /\ cin.sub = 24 /\ Len(p) >= 1 =>
                   DecodedFields = {"cache_enabled"} /\ cout["cache_enabled"] = (p[1] # 0)
            /\ cin.sub = 26 /\ Len(p) >= 2 =>
                   DecodedFields = {"cache_time"} /\ cout["cache_time"] = Shl(p[1], 8) + p[2]
            /\ cin.sub \in {36, 8} =>
                   DecodedFields \cap (WiegandFields \cup Rs485Fields
                                       \cup {"cache_enabled", "cache_time", "relays",
                                             "inputs", "mode"}) = {}

\* C34: a client that polls GET /api/logs with after = the total of its
\* previous response receives the entries appended between the two polls,
\* each once and none missing, also once more than 2000 entries have been
\* logged.
C34_PollGetsEachEntryOnce ==
    cout.polls >= 2
        => cout.logs = [i \in 1..(cout.serial - cout.before) |-> cout.before + i]

\* The offsets the parameter table of the firmware gives the fields of the
\* image: IP, mask and gateway from 0x01, the MAC from 0x0D, the
\* server/client block from 0x13 and Wiegand from 0x41C.
TableBytes(data, offset, size) == Slice(data, offset, offset + size)

\* C35: each accessor reads the bytes the parameter table assigns to its
\* field: IP, mask and gateway at 0x01..0x0C, the six bytes of the MAC at
\* 0x0D..0x12, local port, server IP and server port as port(2), IP(4),
\* port(2) from 0x13, Wiegand enable, format and bits at 0x41C..0x41E.
C35_AccessorsReadTableRanges ==
    cstep = "shown" /\ Len(cout.data) = SIZE =>
        /\ cout.view.ip = TableBytes(cout.data, 1, 4)
        /\ cout.view.mask = TableBytes(cout.data, 5, 4)
        /\ cout.view.gateway = TableBytes(cout.data, 9, 4)
        /\ cout.view.device_mac = hex(TableBytes(cout.data, 13, 6))
        /\ cout.view.local_port = UnpackU16(cout.data, 19)
        /\ cout.view.server_ip = TableBytes(cout.data, 21, 4)
        /\ cout.view.server_port = UnpackU16(cout.data, 25)
        /\ <<cout.view.wiegand_enabled, cout.view.wiegand_format, cout.view.wiegand_bits>>
               = TableBytes(cout.data, 1052, 3)

\* The payload the reader answered to the GET of the call, NoFrame when
\* it answered nothing.
OwnAnswer ==
    IF cin.answer = "none" THEN NoFrame
    ELSE parse_packet(Answer(cin.answer, AntennaBlock(cin.port)))[3]

\* C37: the SET of set_antenna_power carries the payload answered to its
\* own GET with byte 3 replaced by p & 0xFF; when the GET is not answered
\* or answered with fewer than 12 bytes, no SET is sent and the reader's
\* configuration stays as it was.
C37_SetIsOwnAnswerWithPower ==
    cstep \in {"returned", "set_sent"} =>
        IF OwnAnswer # NoFrame /\ Len(OwnAnswer) >= 12
        THEN Len(cout.sent) = 2 =>
                cout.sent[2] = build_packet(CMD_CONFIG, SUB_SET_ANTENNA,
                                   [OwnAnswer EXCEPT ![4] = cin.power_dbm % 256])
        ELSE /\ Len(cout.sent) = 1
             /\ cout.config = [n \in PowerPorts |-> AntennaBlock(n)]

\* The stop request of the bridge and of the client:
\* build_packet(0x02, 0xFF) with no payload.
StopInput == [cmd |-> CMD_RF, sub |-> SUB_STOP, data |-> <<>>]

\* C38: build_packet(0x02, 0xFF) with an empty payload is the stop
\* command the firmware holds, AA 02 FF 00 00 A4 0F, and 0xA40F is the
\* CRC over 02 FF 00 00.
C38_StopPacket ==
    (cstep = "built" /\ cin = StopInput)
        => /\ cout.data = <<170, 2, 255, 0, 0, 164, 15>>
           /\ cout.data = stop_pkt
           /\ crc16(<<2, 255, 0, 0>>, 0) = 164 * 256 + 15

C38_Witness == cstep = "built" /\ cin = StopInput /\ cout.data[3] = SUB_STOP

\* C39: a streamer reads, and sets the timeout, only on the socket of the
\* session it sent its start command to: after a connect has replaced the
\* session, or a reboot and a new connect, it makes no recv and no
\* settimeout on the new session's socket.
C39_StreamerKeepsToItsSession ==
    [][\A s \in Streamers : \A i \in 1..Len(sockOps') :
          (sockOps'[i].task = s /\ sockOps'[i].op \in {"recv", "settimeout"})
              => reader = cout'[s]]_vars

\* A streamer task is scheduled or running.
StreamerAlive == \E s \in DOMAIN spc : spc[s] # "off"

\* A start action has set the flag and not yet called ensure_future.
StartPending == \E w \in DOMAIN wpc : wpc[w] = "starting"

====
